---- MODULE Spec2Model ----
(***************************************************************************)
(* Socio.io content script (src/extension/content-new.js): the discovery, *)
(* queueing, batch dispatch and apply/undo pipeline, and the local        *)
(* fallback text analysis.                                                *)
(*                                                                         *)
(* Two specifications share the definitions of this module:               *)
(*   SpecText  one text element and the text analysis functions, applied  *)
(*             to texts built from a small vocabulary;                    *)
(*   Spec      the pipeline: scans, timers, queue, dispatcher, verdicts,  *)
(*             toggle messages and the restore sweep on a small page.     *)
(***************************************************************************)
EXTENDS Integers, Sequences, FiniteSets, Bags, TLC

VARIABLES
    \* ---- SpecText ----
    elem,       \* the text element under test (a DOM element record)
    phase,      \* "idle" | "fetch" | "done" | "restored": where processTextElement is
    captured,   \* the `text` constant processTextElement holds across its await
    result,     \* what processTextElement returned (its status)
    call,       \* the last call of analyzeText / analyzeTextContent and its return value
    before,     \* history: the element's textContent when the page was loaded
    \* ---- Spec ----
    isEnabled,               \* protection is on
    backendRunning,          \* the availability flag
    currentlyProcessing,     \* a dispatch cycle is running
    processingQueue,         \* the queue of items {type, element}
    textElementsProcessed,   \* the registry of text elements
    imageElementsProcessed,  \* the registry of image elements
    texts,                   \* the text elements of the document
    images,                  \* the image elements of the document
    timers,                  \* the pending setTimeout callbacks, in firing order
    batches,                 \* the batches in flight, each a sequence of items
    imageFetches,            \* the images with a processImage fetch in flight
    events,                  \* history: the number of triggers fired so far
    pushes,                  \* history: pushes of each element since the registry reset
    origin,                  \* history: each element as it was when the page was loaded
    \* ---- SpecStore ----
    store,                   \* chrome.storage.local: enabled, the counters, the history
    storageOps,              \* the calls of chrome.storage.local that are under way
    filterActions,           \* history: the filter actions taken, by content kind
    \* ---- SpecCrypt ----
    contentFilter,           \* a ContentFilter instance of the backend and its last calls
    \* ---- SpecHealth ----
    pings,                   \* the fetches of /ping by checkBackendStatus that are under way
    lastCheck,               \* history: how the health check that settled last ended
    \* ---- SpecStartup ----
    boot,                    \* where the top level of the content script is
    intervals,               \* the periodic scans set by setInterval and their handles
    toggles,                 \* history: the enabled values of the toggle messages received
    acks,                    \* history: the enabled values of the acknowledgements sent
    \* ---- SpecShow, SpecRecover ----
    shown,                   \* history: the images whose "Show Image" button was clicked
    notice                   \* the notifications of applyRecoveredContent whose timer is set

textVars == <<elem, phase, captured, result, call, before>>
vars == <<isEnabled, backendRunning, currentlyProcessing, processingQueue,
          textElementsProcessed, imageElementsProcessed, texts, images, timers,
          batches, imageFetches, events, pushes, origin>>
storeVars == <<store, storageOps, filterActions>>
backendVars == <<contentFilter>>
healthVars == <<pings, lastCheck>>
startVars == <<boot, intervals, toggles, acks>>
lifeVars == <<pings, lastCheck, boot, intervals, toggles, acks>>
pageVars == <<shown, notice>>

(***************************************************************************)
(* Strings are sequences of one-character strings.                        *)
(***************************************************************************)
RECURSIVE Rep(_, _)
Rep(s, n) == IF n = 0 THEN <<>> ELSE s \o Rep(s, n - 1)

W_shit    == <<"s", "h", "i", "t">>
W_Shit    == <<"S", "h", "i", "t">>
W_kill    == <<"k", "i", "l", "l">>
W_all     == <<"a", "l", "l">>
W_them    == <<"t", "h", "e", "m">>
W_sp      == <<" ">>
W_fuck    == <<"f", "u", "c", "k">>
W_ass     == <<"a", "s", "s">>
W_bitch   == <<"b", "i", "t", "c", "h">>
W_asshole == <<"a", "s", "s", "h", "o", "l", "e">>
W_nigger  == <<"n", "i", "g", "g", "e", "r">>
W_faggot  == <<"f", "a", "g", "g", "o", "t">>
W_killall == W_kill \o W_sp \o W_all

S_ContentFiltered ==
    <<"[", "C", "o", "n", "t", "e", "n", "t", " ",
      "f", "i", "l", "t", "e", "r", "e", "d", "]">>
S_Ellipsis == <<".", ".", ".">>
S_AdditionalFiltered ==
    <<"\n", "\n", "[", "A", "d", "d", "i", "t", "i", "o", "n", "a", "l", " ",
      "c", "o", "n", "t", "e", "n", "t", " ",
      "f", "i", "l", "t", "e", "r", "e", "d", "]">>
S_ClickIndicator ==
    <<"[", "C", "o", "n", "t", "e", "n", "t", " ",
      "f", "i", "l", "t", "e", "r", "e", "d", " ", "-", " ",
      "c", "l", "i", "c", "k", " ", "i", "n", "d", "i", "c", "a", "t", "o", "r", " ",
      "t", "o", " ", "v", "i", "e", "w", "]">>

Letters ==
    {"a", "b", "c", "d", "e", "f", "g", "h", "i", "j", "k", "l", "m", "n", "o",
     "p", "q", "r", "s", "t", "u", "v", "w", "x", "y", "z", "S", "K", "A"}

\* String.prototype.toLowerCase, on the characters the texts use.
LowerChar(c) ==
    CASE c = "S" -> "s"
      [] c = "K" -> "k"
      [] c = "A" -> "a"
      [] OTHER   -> c

ToLowerCase(s) == [i \in 1..Len(s) |-> LowerChar(s[i])]

IsSpace(c) == c \in {" ", "\n"}

\* String.prototype.trim: the text without its leading and trailing white space.
Trim(s) ==
    LET idx == {i \in 1..Len(s) : ~IsSpace(s[i])}
        lo  == CHOOSE i \in idx : \A j \in idx : i <= j
        hi  == CHOOSE i \in idx : \A j \in idx : j <= i
    IN  IF idx = {} THEN <<>> ELSE SubSeq(s, lo, hi)

\* String.prototype.includes
Includes(s, w) ==
    \E i \in 1..(Len(s) - Len(w) + 1) : SubSeq(s, i, i + Len(w) - 1) = w

\* \w of a regular expression
IsWordChar(c) == c \in Letters

\* \b between position k and k + 1 of s (k = 0: before the first character)
WordBoundary(s, k) ==
    LET left  == k >= 1 /\ k <= Len(s) /\ IsWordChar(s[k])
        right == k + 1 >= 1 /\ k + 1 <= Len(s) /\ IsWordChar(s[k + 1])
    IN  left # right

\* new RegExp(`\\b${word}\\b`, 'i').test(s)
WholeWordTest(w, s) ==
    \E i \in 1..(Len(s) - Len(w) + 1) :
        /\ ToLowerCase(SubSeq(s, i, i + Len(w) - 1)) = ToLowerCase(w)
        /\ WordBoundary(s, i - 1)
        /\ WordBoundary(s, i + Len(w) - 1)

\* text.split('.')[0]
FirstSentence(s) ==
    LET dots == {i \in 1..Len(s) : s[i] = "."}
        d    == CHOOSE i \in dots : \A j \in dots : i <= j
    IN  IF dots = {} THEN s ELSE SubSeq(s, 1, d - 1)


(***************************************************************************)
(* Verdicts and results.                                                   *)
(***************************************************************************)
\* What a fetch of the Analysis Service can come to.  "allow", "remove",
\* "encrypt": a success response whose JSON body has that action.  "other":
\* a success response whose JSON body has no known action.  "notok": a
\* non-success response (response.ok is false) with a JSON error body.
\* "fail": the fetch rejects, or the body is not JSON.
Responses == {"allow", "remove", "encrypt", "other", "notok", "fail"}

Undefined == [defined |-> FALSE, action |-> "", reasons |-> {}]
Verdict(a, rs) == [defined |-> TRUE, action |-> a, reasons |-> rs]

(***************************************************************************)
(* A text element of the document.                                        *)
(*   text       textContent                                                *)
(*   connected  isConnected                                                *)
(*   cls        carries EXCLUSION_CLASS                                    *)
(*   filt       carries the class socioio-filtered-text                    *)
(*   hasOrig, orig   the attribute data-original-text                      *)
(*   ind        the indicator nodes inserted after the element             *)
(***************************************************************************)
TextElement(t) ==
    [text |-> t, connected |-> TRUE, cls |-> FALSE, filt |-> FALSE,
     hasOrig |-> FALSE, orig |-> <<>>, ind |-> 0]

MinTextLength == 5
ShortTextLimit == 30
MediumTextLimit == 100
PreviewLength == 50
EdgeLength == 10

\* processTextElement, the placeholder of a removed text
FilteredText(text) ==
    IF Len(text) < ShortTextLimit THEN S_ContentFiltered
    ELSE IF Len(text) < MediumTextLimit
    THEN SubSeq(text, 1, EdgeLength) \o S_Ellipsis \o W_sp \o S_ContentFiltered
         \o W_sp \o S_Ellipsis \o SubSeq(text, Len(text) - EdgeLength + 1, Len(text))
    ELSE LET first == FirstSentence(text)
             preview == IF Len(first) > PreviewLength
                        THEN SubSeq(first, 1, PreviewLength) \o S_Ellipsis
                        ELSE first
         IN  preview \o S_AdditionalFiltered

\* addModerationIndicator: an indicator already on the page is removed when
\* its box is within 30 px of the element's box (near), and one new indicator
\* is inserted after the element.
AddModerationIndicator(el, near) ==
    [el EXCEPT !.ind = (IF near THEN 0 ELSE el.ind) + 1]

\* processTextElement up to its await: the result it returns at once, or
\* "pending" with the attribute data-original-text set to the trimmed text.
ProcessTextSkip(el) ==
    IF ~el.connected THEN "element_not_connected"
    ELSE IF Trim(el.text) = <<>> THEN "no_text"
    ELSE IF Len(Trim(el.text)) < MinTextLength THEN "text_too_short"
    ELSE "none"

ProcessTextStart(el) ==
    IF ProcessTextSkip(el) # "none" THEN el
    ELSE [el EXCEPT !.hasOrig = TRUE, !.orig = Trim(el.text)]

\* processTextElement, the catch branch: whole-word matches of the two lists
ProfanityWords == {W_fuck, W_shit, W_asshole}
HateWords == {W_nigger, W_faggot, W_killall}

IsProfanity(text) == \E w \in ProfanityWords : WholeWordTest(w, ToLowerCase(text))
IsHateSpeech(text) == \E w \in HateWords : WholeWordTest(w, ToLowerCase(text))

FallbackReasons(text) ==
    (IF IsProfanity(text) THEN {"Profanity detected"} ELSE {})
    \cup (IF IsHateSpeech(text) THEN {"Hate speech detected"} ELSE {})

\* Does the response make processTextElement filter the element?
TextFilters(text, resp) ==
    IF resp = "fail" THEN IsProfanity(text) \/ IsHateSpeech(text)
    ELSE resp = "remove"

\* processTextElement after its await, on the text it captured before it
ProcessTextVerdict(el, text, resp, near) ==
    IF ~TextFilters(text, resp) THEN el
    ELSE AddModerationIndicator(
            [el EXCEPT !.text = IF resp = "fail" THEN S_ClickIndicator
                                 ELSE FilteredText(text),
                       !.filt = TRUE],
            near)

ProcessTextStatus(text, resp) ==
    IF TextFilters(text, resp) THEN "filtered" ELSE "kept"

\* restoreOriginalContent on one text element: every indicator node is
\* removed; an element carrying socioio-filtered-text gets the value of
\* data-original-text back and loses the attribute and the class.
RestoreTextElement(el) ==
    IF ~el.connected THEN el
    ELSE IF ~el.filt THEN [el EXCEPT !.ind = 0]
    ELSE IF el.hasOrig /\ el.orig # <<>>
    THEN [el EXCEPT !.ind = 0, !.filt = FALSE, !.text = el.orig,
                    !.hasOrig = FALSE, !.orig = <<>>]
    ELSE [el EXCEPT !.ind = 0, !.filt = FALSE]

(***************************************************************************)
(* The text analysis functions.                                            *)
(***************************************************************************)
\* performBasicTextAnalysis: its body lower-cases the text, declares a
\* nested function and ends without a return statement.
PerformBasicTextAnalysis(text) == Undefined

\* analyzeText: the body of a success response as is, and
\* performBasicTextAnalysis when the fetch throws or the response is not ok.
AnalyzeText(text, resp) ==
    IF text = <<>> \/ Len(Trim(text)) < MinTextLength
    THEN Verdict("allow", {"Text too short"})
    ELSE IF resp \in {"allow", "remove", "encrypt", "other"}
    THEN Verdict(resp, {"remote"})
    ELSE PerformBasicTextAnalysis(text)

\* analyzeTextContent: the remote verdict as is; when the fetch fails,
\* text.toLowerCase().includes(word) over its own word list.
ContentProfanityWords == {W_fuck, W_shit, W_ass, W_bitch}
MinContentLength == 3

ContainsProfanity(text) ==
    \E w \in ContentProfanityWords : Includes(ToLowerCase(text), w)

AnalyzeTextContent(text, resp) ==
    IF text = <<>> \/ Len(Trim(text)) < MinContentLength
    THEN Verdict("allow", {})
    ELSE IF resp \in {"allow", "remove", "encrypt", "other"}
    THEN Verdict(resp, {"remote"})
    ELSE IF ContainsProfanity(text)
    THEN Verdict("remove", {"Profanity detected (client-side fallback)"})
    ELSE Verdict("allow", {})


(***************************************************************************)
(* SpecText: one text element through processTextElement and              *)
(* restoreOriginalContent, and the analysis functions on its text.        *)
(***************************************************************************)
MaxTokens == 5
NumLongTokens == 2

Tokens == {W_Shit, W_kill, W_all, W_them, W_sp}

W_lorem == <<"l", "o", "r", "e", "m", " ">>
\* 30 and 104 characters: a medium and a long text, the long one of two sentences
Heads == {Rep(W_lorem, 5), Rep(W_lorem, 9) \o <<".", " ">> \o Rep(W_lorem, 8)}

RECURSIVE TokenTexts(_)
TokenTexts(n) ==
    IF n = 0 THEN {<<>>}
    ELSE LET shorter == TokenTexts(n - 1)
         IN  shorter \cup {t \o w : t \in shorter, w \in Tokens}

TextInputs ==
    TokenTexts(MaxTokens)
    \cup {h \o b : h \in Heads, b \in TokenTexts(NumLongTokens)}

NoCall == [fn |-> "none", resp |-> "", ret |-> Undefined]

\* Under SpecText the pipeline's variables are not used, and conversely.
PipelineUnused ==
    /\ isEnabled = TRUE
    /\ backendRunning = TRUE
    /\ currentlyProcessing = FALSE
    /\ processingQueue = <<>>
    /\ textElementsProcessed = {}
    /\ imageElementsProcessed = {}
    /\ texts = <<>>
    /\ images = <<>>
    /\ timers = <<>>
    /\ batches = <<>>
    /\ imageFetches = {}
    /\ events = 0
    /\ pushes = <<>>
    /\ origin = <<>>

StoreUnused ==
    /\ store = <<>>
    /\ storageOps = <<>>
    /\ filterActions = <<>>

BackendUnused == contentFilter = <<>>

\* no periodic scan is set: window.socioIntervalScan and
\* window.socioIntervalImageScan hold no handle
NoIntervals ==
    [socioIntervalScan |-> FALSE, socioIntervalImageScan |-> FALSE,
     scans |-> 0, imageScans |-> 0]

\* no notification has its timer set
NoNotice == {}

PageUnused ==
    /\ shown = {}
    /\ notice = NoNotice

LifeUnused ==
    /\ pings = 0
    /\ lastCheck = "none"
    /\ boot = "unused"
    /\ intervals = NoIntervals
    /\ toggles = <<>>
    /\ acks = <<>>

TextUnused ==
    /\ elem = <<>>
    /\ phase = "unused"
    /\ captured = <<>>
    /\ result = "none"
    /\ call = NoCall
    /\ before = <<>>

InitText ==
    /\ elem \in {TextElement(t) : t \in TextInputs}
    /\ before = elem.text
    /\ phase = "idle"
    /\ captured = <<>>
    /\ result = "none"
    /\ call = NoCall
    /\ PipelineUnused
    /\ StoreUnused
    /\ BackendUnused
    /\ LifeUnused
    /\ PageUnused

\* The dispatcher calls processTextElement(element): it runs to its await.
TProcessStart ==
    /\ phase = "idle"
    /\ call = NoCall
    /\ elem' = ProcessTextStart(elem)
    /\ IF ProcessTextSkip(elem) = "none"
       THEN /\ phase' = "fetch"
            /\ captured' = Trim(elem.text)
            /\ result' = "pending"
       ELSE /\ phase' = "done"
            /\ captured' = <<>>
            /\ result' = "skipped"
    /\ UNCHANGED <<call, before>>
    /\ UNCHANGED <<vars, storeVars, backendVars, lifeVars, pageVars>>

\* The fetch of /analyze_text settles and processTextElement runs to its end.
TProcessVerdict ==
    /\ phase = "fetch"
    /\ \E resp \in Responses, near \in BOOLEAN :
        /\ elem' = ProcessTextVerdict(elem, captured, resp, near)
        /\ result' = ProcessTextStatus(captured, resp)
        /\ call' = [fn |-> "processTextElement", resp |-> resp, ret |-> Undefined]
    /\ phase' = "done"
    /\ UNCHANGED <<captured, before>>
    /\ UNCHANGED <<vars, storeVars, backendVars, lifeVars, pageVars>>

\* A toggle message turns protection off: restoreOriginalContent.
TRestore ==
    /\ phase = "done"
    /\ elem' = RestoreTextElement(elem)
    /\ phase' = "restored"
    /\ UNCHANGED <<captured, result, call, before>>
    /\ UNCHANGED <<vars, storeVars, backendVars, lifeVars, pageVars>>

\* analyzeText(text) on the element's text
TAnalyzeText ==
    /\ phase = "idle"
    /\ call = NoCall
    /\ \E resp \in Responses :
        call' = [fn |-> "analyzeText", resp |-> resp, ret |-> AnalyzeText(elem.text, resp)]
    /\ UNCHANGED <<elem, phase, captured, result, before>>
    /\ UNCHANGED <<vars, storeVars, backendVars, lifeVars, pageVars>>

\* analyzeTextContent(text, url) on the element's text
TAnalyzeTextContent ==
    /\ phase = "idle"
    /\ call = NoCall
    /\ \E resp \in Responses :
        call' = [fn |-> "analyzeTextContent", resp |-> resp,
                 ret |-> AnalyzeTextContent(elem.text, resp)]
    /\ UNCHANGED <<elem, phase, captured, result, before>>
    /\ UNCHANGED <<vars, storeVars, backendVars, lifeVars, pageVars>>

NextText ==
    \/ TProcessStart
    \/ TProcessVerdict
    \/ TRestore
    \/ TAnalyzeText
    \/ TAnalyzeTextContent

SpecText == InitText /\ [][NextText]_<<textVars, vars, storeVars, backendVars, lifeVars, pageVars>>


(***************************************************************************)
(* Claims settled under SpecText.                                          *)
(***************************************************************************)
\* A word of a fallback list occurs in the text as a whole word, in any case.
ContainsListedWord(text) ==
    \E w \in ProfanityWords \cup HateWords : WholeWordTest(w, text)

\* C4 (text reversibility): after restoreOriginalContent, every text element
\* that processTextElement filtered shows, character for character, the text
\* it had before filtering (leading and trailing white space included), has
\* lost the filtered marker and has no indicator node.
C4_TextReversibility ==
    (phase = "restored" /\ result = "filtered")
        => /\ elem.text = before
           /\ ~elem.filt
           /\ elem.ind = 0

\* C7 (fallback correctness, text): with the Analysis Service unreachable, a
\* text containing a word of the fallback lists yields the action remove and
\* a text containing none yields allow, in analyzeText (whose fallback is
\* performBasicTextAnalysis) as in processTextElement.  Texts shorter than
\* the minimum length are never analysed and are left out.
C7_FallbackCorrectness ==
    /\ (call.fn = "analyzeText" /\ call.resp = "fail"
            /\ Len(Trim(before)) >= MinTextLength)
        => call.ret = Verdict(IF ContainsListedWord(before) THEN "remove" ELSE "allow",
                              call.ret.reasons)
    /\ (call.fn = "processTextElement" /\ call.resp = "fail"
            /\ Len(Trim(before)) >= MinTextLength)
        => /\ ContainsListedWord(before) => result = "filtered"
           /\ ~ContainsListedWord(before) => (result = "kept" /\ elem.text = before)

\* C8 (whole-word fallback matching): in every fallback path a text is
\* removed only for a listed word that occurs as a whole word, compared
\* without regard to case; a listed word inside a longer word removes
\* nothing, and "kill all" does not match "kill them all".
C8_WholeWordMatching ==
    /\ (call.fn = "processTextElement" /\ call.resp = "fail" /\ result = "filtered")
        => ContainsListedWord(before)
    /\ (call.fn = "analyzeTextContent" /\ call.resp = "fail" /\ call.ret.action = "remove")
        => \E w \in ContentProfanityWords : WholeWordTest(w, before)


\* C10 (allow is mutation-free): an element whose analysis ends in allow has,
\* after processTextElement, the content, the attributes and the style it
\* had before it was discovered.
C10_AllowNoMutation ==
    (call.fn = "processTextElement" /\ call.resp = "allow")
        => elem = TextElement(before)


\* C11 (remove and encrypt always filter): an attached text element whose
\* verdict is remove or encrypt ends filtered: the placeholder is shown, the
\* original text is saved and an indicator is attached.
C11_RemoveEncryptFilter ==
    (call.fn = "processTextElement" /\ call.resp \in {"remove", "encrypt"}
        /\ phase = "done")
        => /\ result = "filtered"
           /\ elem.filt
           /\ elem.text # before
           /\ elem.hasOrig
           /\ elem.ind > 0

\* C18 (non-success response): a non-success response to a text analysis
\* request gives the element the outcome a network error gives it, which is
\* the verdict of the local word lists on its text; analyzeText returns for
\* it what it returns for a network error.
C18_NonSuccessFallsBack ==
    /\ (call.fn = "processTextElement" /\ call.resp = "notok")
        => /\ result = ProcessTextStatus(captured, "fail")
           /\ result = "filtered" <=> ContainsListedWord(captured)
    /\ (call.fn = "analyzeText" /\ call.resp = "notok")
        => call.ret = AnalyzeText(before, "fail")


(***************************************************************************)
(* Spec: the pipeline on a page of two text elements and one image.       *)
(***************************************************************************)
BATCH_SIZE == 10
MaxEvents == 2

Headings == {"h1"}
TextElems == {"h1", "p1", "p2", "p3"}
ImgElems == {"img1"}
Elements == TextElems \cup ImgElems

\* document order, as querySelectorAll returns the elements
TextOrder == <<"h1", "p1", "p2", "p3">>
ImgOrder == <<"img1">>

(***************************************************************************)
(* An image element of the document.                                      *)
(*   connected  the image is in the document                               *)
(*   src        "plain" | "safe" (a trusted domain) | "sensitive" (a       *)
(*              keyword in the URL) | "none" (no source)                   *)
(*   nat, w     naturalWidth = naturalHeight, width = height               *)
(*   complete   the image has loaded                                       *)
(*   cls        carries EXCLUSION_CLASS                                    *)
(*   blur, border    style.filter is a blur; style.border                  *)
(*   origStyle  the attribute data-original-style is set                   *)
(*   analyzing  the attribute data-socioio-analyzing is set                *)
(*   fattr      the attribute data-socioio-filtered is set                 *)
(*   fclass     carries the class socioio-filtered-image                   *)
(*   wrappers   the socioio-image-wrapper nodes around the image           *)
(*   overlay    a socioio-overlay node follows the image in its wrapper    *)
(*   onload     the batch item whose onload/onerror handlers the image     *)
(*              carries (its index), 0 for none, -1 for processNewImage's  *)
(***************************************************************************)
ImageElement(src, nat, w, complete) ==
    [connected |-> TRUE, src |-> src, nat |-> nat, w |-> w, complete |-> complete,
     cls |-> FALSE, blur |-> FALSE, border |-> "", origStyle |-> FALSE,
     analyzing |-> FALSE, fattr |-> FALSE, fclass |-> FALSE,
     wrappers |-> 0, overlay |-> FALSE, onload |-> 0]

SmallSize == 40
LargeSize == 200

ImageInputs ==
    {ImageElement("plain", LargeSize, LargeSize, TRUE),
     ImageElement("plain", SmallSize, SmallSize, TRUE),
     ImageElement("plain", SmallSize, LargeSize, TRUE)}

\* The page's texts: "all them" in the heading, " kill them all " in the
\* paragraph.  Neither holds a word of the fallback lists, so that a text is
\* filtered here by a remote verdict only (SpecText covers the fallback).
PageText(e) ==
    IF e \in Headings THEN W_all \o W_sp \o W_them
    ELSE W_sp \o W_kill \o W_sp \o W_them \o W_sp \o W_all \o W_sp

\* The paragraphs p2 and p3 are in the document of the long page only
\* (SpecLive); on the other pages they are elements outside the document.
LongPageOnly == {"p2", "p3"}
OnPage(e) ==
    IF e \in LongPageOnly THEN [TextElement(PageText(e)) EXCEPT !.connected = FALSE]
    ELSE TextElement(PageText(e))

\* A timer callback: the chunk callback of processElementsWithDelay over a
\* list of elements, the push callback of one element, or processNextBatch.
\* The 5 s timeout of an item waiting for its image carries the item's index.
\* rem is the time until the timer is due, in ticks of 50 ms.
Task(k, type, els) == [k |-> k, type |-> type, els |-> els, i |-> 0, rem |-> 0]
PnbTask == Task("processNextBatch", "", <<>>)

\* the timers of the start-up, whose callbacks also call chrome.storage.local
\* and setInterval
StartupTasks == {"delayedInit", "startFiltering"}

ElementStep == 1
QueueKick == 2
BATCH_DELAY == 4
LoadWait == 100
ChunkSize == 5

\* A queue item, and the item as processElement holds it in a batch:
\*   st   "fetch" (a text awaiting its response), "wait" (an image awaiting
\*        its load), "fulfilled" or "rejected"
\*   txt  the text processTextElement captured
Item(type, el) == [type |-> type, el |-> el]
BatchItem(type, el, st, txt) == [type |-> type, el |-> el, st |-> st, txt |-> txt]

Settled == {"fulfilled", "rejected"}

Init ==
    /\ isEnabled = TRUE
    /\ backendRunning = TRUE
    /\ currentlyProcessing = FALSE
    /\ processingQueue = <<>>
    /\ textElementsProcessed = {}
    /\ imageElementsProcessed = {}
    /\ texts = [e \in TextElems |-> OnPage(e)]
    /\ images \in [ImgElems -> ImageInputs]
    /\ timers = <<>>
    /\ batches = <<>>
    /\ imageFetches = {}
    /\ events = 0
    /\ pushes = [e \in Elements |-> 0]
    /\ origin = [e \in Elements |-> IF e \in TextElems THEN texts[e] ELSE images[e]]
    /\ TextUnused
    /\ BackendUnused
    /\ LifeUnused
    /\ PageUnused
    /\ StoreUnused


(***************************************************************************)
(* The handlers, as functions of the pipeline's state s.                  *)
(***************************************************************************)
State ==
    [isEnabled |-> isEnabled, backendRunning |-> backendRunning,
     currentlyProcessing |-> currentlyProcessing,
     processingQueue |-> processingQueue,
     textElementsProcessed |-> textElementsProcessed,
     imageElementsProcessed |-> imageElementsProcessed,
     texts |-> texts, images |-> images, timers |-> timers, batches |-> batches,
     imageFetches |-> imageFetches, pushes |-> pushes]

AssignPage(s) ==
    /\ isEnabled' = s.isEnabled
    /\ backendRunning' = s.backendRunning
    /\ currentlyProcessing' = s.currentlyProcessing
    /\ processingQueue' = s.processingQueue
    /\ textElementsProcessed' = s.textElementsProcessed
    /\ imageElementsProcessed' = s.imageElementsProcessed
    /\ texts' = s.texts
    /\ images' = s.images
    /\ timers' = s.timers
    /\ batches' = s.batches
    /\ imageFetches' = s.imageFetches
    /\ pushes' = s.pushes
    /\ UNCHANGED <<origin, textVars, backendVars>>

AssignState(s) == AssignPage(s) /\ UNCHANGED pageVars

Assign(s) == AssignState(s) /\ UNCHANGED lifeVars

\* a task that makes no call of chrome.storage.local
Becomes(s) == Assign(s) /\ UNCHANGED storeVars

Min(a, b) == IF a < b THEN a ELSE b

\* setTimeout(task, d ticks): timers fire in the order of their due times,
\* and timers due together in the order they were set
SetTimeout(s, task, d) ==
    LET ts == s.timers
        n == Cardinality({k \in 1..Len(ts) : ts[k].rem <= d})
    IN  [s EXCEPT !.timers = SubSeq(ts, 1, n) \o <<[task EXCEPT !.rem = d]>>
                             \o SubSeq(ts, n + 1, Len(ts))]

\* processingQueue.unshift(item)
Push_Unshift(s, type, el) ==
    [s EXCEPT !.processingQueue = <<Item(type, el)>> \o @,
              !.pushes[el] = @ + 1]

\* processingQueue.push(item)
Push(s, type, el) ==
    [s EXCEPT !.processingQueue = Append(@, Item(type, el)),
              !.pushes[el] = @ + 1]

\* processElement(item), up to the point where it returns its promise
ProcessElement(s, item, idx) ==
    IF item.type = "text"
    THEN LET el == s.texts[item.el]
         IN  IF ProcessTextSkip(el) # "none"
             THEN [s |-> s, bi |-> BatchItem("text", item.el, "fulfilled", <<>>)]
             ELSE [s  |-> [s EXCEPT !.texts[item.el] = ProcessTextStart(el)],
                   bi |-> BatchItem("text", item.el, "fetch", Trim(el.text))]
    ELSE IF s.images[item.el].complete
         \* processImageElement is not defined: the call throws and the
         \* inner catch rejects
         THEN [s |-> s, bi |-> BatchItem("image", item.el, "rejected", <<>>)]
         ELSE [s  |-> SetTimeout([s EXCEPT !.images[item.el].onload = idx],
                                 [Task("loadTimeout", "image", <<item.el>>)
                                     EXCEPT !.i = idx],
                                 LoadWait),
               bi |-> BatchItem("image", item.el, "wait", <<>>)]

\* batch.map(processElement)
RECURSIVE MapProcessElement(_, _, _, _)
MapProcessElement(s, batch, k, acc) ==
    IF k > Len(batch) THEN [s EXCEPT !.batches = Append(@, acc)]
    ELSE LET r == ProcessElement(s, batch[k], k)
         IN  MapProcessElement(r.s, batch, k + 1, Append(acc, r.bi))


\* processNextBatch without the test of currentlyProcessing
ProcessNextBatch_Reentrant(s) ==
    IF s.processingQueue = <<>> \/ ~s.isEnabled THEN s
    ELSE LET q == s.processingQueue
             n == Min(BATCH_SIZE, Len(q))
         IN  MapProcessElement(
                [s EXCEPT !.currentlyProcessing = TRUE,
                          !.processingQueue = SubSeq(q, n + 1, Len(q))],
                SubSeq(q, 1, n), 1, <<>>)

\* processNextBatch taking the whole queue for its batch
ProcessNextBatch_WholeQueue(s) ==
    IF s.currentlyProcessing \/ s.processingQueue = <<>> \/ ~s.isEnabled THEN s
    ELSE MapProcessElement(
            [s EXCEPT !.currentlyProcessing = TRUE, !.processingQueue = <<>>],
            s.processingQueue, 1, <<>>)

\* processNextBatch
ProcessNextBatch(s) ==
    IF s.currentlyProcessing \/ s.processingQueue = <<>> \/ ~s.isEnabled THEN s
    ELSE LET q == s.processingQueue
             n == Min(BATCH_SIZE, Len(q))
         IN  MapProcessElement(
                [s EXCEPT !.currentlyProcessing = TRUE,
                          !.processingQueue = SubSeq(q, n + 1, Len(q))],
                SubSeq(q, 1, n), 1, <<>>)

\* Promise.race in the place of Promise.allSettled: one promise has settled
AllSettled_Race(batch) == \E k \in 1..Len(batch) : batch[k].st \in Settled

\* Promise.all in the place of Promise.allSettled: its then callback runs
\* only when every promise is fulfilled
AllSettled_AllFulfilled(batch) == \A k \in 1..Len(batch) : batch[k].st = "fulfilled"

\* Promise.allSettled(promises) has settled
AllSettled(batch) == \A k \in 1..Len(batch) : batch[k].st \in Settled

\* the callback of Promise.allSettled(promises).then for batch b
BatchComplete(s, b) ==
    LET t == [s EXCEPT !.currentlyProcessing = FALSE,
                       !.batches = SubSeq(@, 1, b - 1) \o SubSeq(@, b + 1, Len(@)),
                       !.images = [e \in ImgElems |->
                                     IF @[e].onload > 0 THEN [@[e] EXCEPT !.onload = 0]
                                     ELSE @[e]]]
    IN  IF t.processingQueue # <<>> THEN SetTimeout(t, PnbTask, BATCH_DELAY) ELSE t

\* The elements of a list that a selector with :not(.EXCLUSION_CLASS) finds
RECURSIVE SelectSeq2(_, _, _)
SelectSeq2(order, keep, k) ==
    IF k > Len(order) THEN <<>>
    ELSE (IF order[k] \in keep THEN <<order[k]>> ELSE <<>>)
         \o SelectSeq2(order, keep, k + 1)

Range(f) == {f[k] : k \in DOMAIN f}

\* processElementsWithDelay: one timer per chunk of 5 elements; a page of
\* this size gives one chunk, at delay 0
ProcessElementsWithDelay(s, els, type) ==
    IF els = <<>> THEN s ELSE SetTimeout(s, Task("chunk", type, els), 0)

\* scanContentForModeration
ScanContentForModeration(s) ==
    IF ~s.isEnabled \/ ~s.backendRunning THEN s
    ELSE LET unmarkedText == {e \in TextElems :
                                 s.texts[e].connected /\ ~s.texts[e].cls}
             unmarkedImg == {e \in ImgElems :
                                 s.images[e].connected /\ ~s.images[e].cls}
             s1 == ProcessElementsWithDelay(
                      s, SelectSeq2(TextOrder, unmarkedText \cap Headings, 1), "text")
             s2 == ProcessElementsWithDelay(
                      s1, SelectSeq2(TextOrder, unmarkedText, 1), "text")
         IN  ProcessElementsWithDelay(
                 s2, SelectSeq2(ImgOrder, unmarkedImg, 1), "image")

InRegistry(s, type, el) ==
    IF type = "text" THEN el \in s.textElementsProcessed
    ELSE el \in s.imageElementsProcessed

\* the chunk callback of processElementsWithDelay: the registry is tested
\* here, and the push of each element not in it is left to a further timer
RECURSIVE ChunkLoop(_, _, _)
ChunkLoop(s, task, j) ==
    IF j > Len(task.els) THEN s
    ELSE LET e == task.els[j]
             s1 == IF InRegistry(s, task.type, e) THEN s
                   ELSE SetTimeout(s, Task("push", task.type, <<e>>),
                                   ((j - 1) % ChunkSize) * ElementStep)
         IN  ChunkLoop(s1, task, j + 1)

ChunkCallback(s, task) == SetTimeout(ChunkLoop(s, task, 1), PnbTask, QueueKick)

AddClass(s, type, el) ==
    IF type = "text" THEN [s EXCEPT !.texts[el].cls = TRUE]
    ELSE [s EXCEPT !.images[el].cls = TRUE]

Register(s, type, el) ==
    IF type = "text" THEN [s EXCEPT !.textElementsProcessed = @ \cup {el}]
    ELSE [s EXCEPT !.imageElementsProcessed = @ \cup {el}]

\* the push callback of processElementsWithDelay
PushCallback(s, task) ==
    LET el == task.els[1]
    IN  AddClass(Register(Push(s, task.type, el), task.type, el), task.type, el)


MinAnalysisSize == 100
MinNaturalSize == 50

\* What the fetch of /analyze_image in processImage can come to: a JSON body
\* whose overall_safety is "unsafe" or "questionable", any other JSON body
\* ("safe"), or a rejected fetch or a body that is not JSON ("fail").
ImageResponses == {"unsafe", "questionable", "safe", "fail"}

\* img.style = img.getAttribute('data-original-style') || ''
ResetStyle(img) == [img EXCEPT !.blur = FALSE, !.border = ""]

\* addOverlayToImage (the second declaration of that name, which is the one
\* in force): wrapper around the image, overlay after it, blur
AddOverlayToImage(img) ==
    IF ~(img.connected \/ img.wrappers > 0) THEN img
    ELSE IF img.overlay THEN img
    ELSE [img EXCEPT !.fclass = TRUE, !.blur = TRUE,
                     !.wrappers = @ + 1, !.overlay = TRUE]

\* processImage
ProcessImage(s, e) ==
    LET img == s.images[e]
    IN  IF img.cls THEN s
        ELSE IF img.w < MinAnalysisSize THEN s
        ELSE LET marked == [img EXCEPT !.cls = TRUE, !.origStyle = TRUE,
                                       !.border = "dashed", !.analyzing = TRUE]
             IN  IF s.backendRunning
                 THEN [s EXCEPT !.images[e] = marked,
                                !.imageFetches = @ \cup {e}]
                 ELSE [s EXCEPT !.images[e] =
                                   [ResetStyle(marked) EXCEPT !.analyzing = FALSE]]

\* processImage, the handlers of its fetch
ProcessImageVerdict(s, e, resp) ==
    LET img == [s.images[e] EXCEPT !.analyzing = FALSE]
        out == IF resp \in {"unsafe", "questionable"}
               THEN AddOverlayToImage([img EXCEPT !.blur = TRUE, !.border = "red"])
               ELSE ResetStyle(img)
    IN  [s EXCEPT !.images[e] = out, !.imageFetches = @ \ {e}]

\* scanImagesForModeration, the loop of processBatch over the images found
RECURSIVE ProcessBatch(_, _, _)
ProcessBatch(s, found, k) ==
    IF k > Len(found) THEN s
    ELSE LET e == found[k]
             img == s.images[e]
             s1 == IF img.complete /\ img.nat > 0 /\ e \notin s.imageElementsProcessed
                   THEN Register(ProcessImage(s, e), "image", e)
                   ELSE s
         IN  ProcessBatch(s1, found, k + 1)

\* addImagesToProcessingQueue, its loop: r.n counts the images added
RECURSIVE AddImages(_, _, _, _)
AddImages(s, found, k, n) ==
    IF k > Len(found) THEN [s |-> s, n |-> n]
    ELSE LET e == found[k]
             img == s.images[e]
         IN  IF img.src = "none" \/ img.cls THEN AddImages(s, found, k + 1, n)
             ELSE AddImages(AddClass(Push(s, "image", e), "image", e),
                            found, k + 1, n + 1)

AddImagesToProcessingQueue(s, found) ==
    LET r == AddImages(s, found, 1, 0)
    IN  IF r.n > 0 THEN ProcessNextBatch(r.s) ELSE r.s

\* scanImagesForModeration
ScanImagesForModeration(s) ==
    IF ~s.isEnabled THEN s
    ELSE LET found == SelectSeq2(ImgOrder,
                        {e \in ImgElems : s.images[e].connected /\ ~s.images[e].cls}, 1)
         IN  AddImagesToProcessingQueue(ProcessBatch(s, found, 1), found)

IsSafeSource(img) == img.src = "safe"
MightBeSensitive(img) == img.src = "sensitive"

\* applyImmediateBlurToAllImages, the loop of processImageBatch
RECURSIVE ProcessImageBatch(_, _, _)
ProcessImageBatch(s, found, k) ==
    IF k > Len(found) THEN s
    ELSE LET e == found[k]
             img == s.images[e]
             s1 == IF img.nat < MinNaturalSize \/ IsSafeSource(img) THEN s
                   ELSE IF MightBeSensitive(img)
                   THEN Register(Push(s, "image", e), "image", e)
                   ELSE IF e \notin s.imageElementsProcessed
                   THEN Register(Push(s, "image", e), "image", e)
                   ELSE s
         IN  ProcessImageBatch(s1, found, k + 1)

\* applyImmediateBlurToAllImages
ApplyImmediateBlurToAllImages(s) ==
    LET found == SelectSeq2(ImgOrder, {e \in ImgElems : s.images[e].connected}, 1)
        s1 == ProcessImageBatch(s, found, 1)
    IN  IF s1.processingQueue # <<>> THEN ProcessNextBatch(s1) ELSE s1

\* restoreOriginalContent on one image: the wrapper nodes are removed from
\* the document with what they hold; then the images the document still
\* holds that are blurred or marked filtered lose blur, border and marks.
RestoreImageElement(img) ==
    IF ~img.connected THEN img
    ELSE IF img.wrappers > 0 THEN [img EXCEPT !.connected = FALSE, !.wrappers = 1]
    ELSE IF img.blur \/ img.fclass \/ img.fattr
    THEN [img EXCEPT !.blur = FALSE, !.border = "", !.fclass = FALSE, !.fattr = FALSE]
    ELSE img

\* restoreOriginalContent
RestoreOriginalContent(s) ==
    [s EXCEPT !.images = [e \in ImgElems |-> RestoreImageElement(@[e])],
              !.texts = [e \in TextElems |-> RestoreTextElement(@[e])]]

\* the message listener, toggleProtection / setEnabled
ToggleProtection(s, enabled) ==
    LET t == [s EXCEPT !.isEnabled = enabled]
    IN  IF enabled /\ ~s.isEnabled THEN ScanContentForModeration(t)
        ELSE IF ~enabled /\ s.isEnabled THEN RestoreOriginalContent(t)
        ELSE t

\* the message listener, backendStatusChanged
BackendStatusChanged(s, running) ==
    LET t == [s EXCEPT !.backendRunning = running]
    IN  IF running /\ t.isEnabled THEN ScanContentForModeration(t) ELSE t

\* the click handler of the overlay's "Show Image" button: the blur and the
\* overlay go, the wrapper stays
ShowImage_Resets(img) == [img EXCEPT !.blur = FALSE, !.overlay = FALSE, !.cls = FALSE]

ShowImage(img) == [img EXCEPT !.blur = FALSE, !.overlay = FALSE]

DEBOUNCE_DELAY == 3

\* debounce(func, wait) returns a function with a timeout variable of its
\* own; a call of that function clears the timer the variable names (id,
\* 0 when it names none) and sets a new one.
Debounced(s, id, task, wait) ==
    LET kept == SelectSeq(s.timers, LAMBDA t : ~(id # 0 /\ t.k = task.k /\ t.i = id))
    IN  SetTimeout([s EXCEPT !.timers = kept], task, wait)

\* the callback of the mutation observer: an image scan at once when the
\* mutations hold an image, and debounce(scan, DEBOUNCE_DELAY)() on a
\* function that debounce has just returned
MutationCallback(s, hasNewImages) ==
    IF ~s.isEnabled THEN s
    ELSE Debounced(IF hasNewImages THEN ScanImagesForModeration(s) ELSE s,
                   0, Task("debouncedScan", "", <<>>), DEBOUNCE_DELAY)

\* the interval callback of resetProcessedSets
ResetProcessedSets(s) ==
    [s EXCEPT !.textElementsProcessed = {}, !.imageElementsProcessed = {},
              !.pushes = [e \in Elements |-> 0]]

\* processTextElement after its await, for item k of batch b
TextResponse(s, b, k, resp, near) ==
    LET it == s.batches[b][k]
    IN  [s EXCEPT !.texts[it.el] = ProcessTextVerdict(@, it.txt, resp, near),
                  !.batches[b][k].st = "fulfilled"]


\* applyImmediateImageBlur
ApplyImmediateImageBlur(img) ==
    IF img.nat < MinNaturalSize \/ IsSafeSource(img) THEN img
    ELSE [img EXCEPT !.blur = TRUE, !.border = "red", !.fattr = TRUE]

\* processNewImage: the image is registered, blurred at once and handed to
\* processElement outside the queue; the promise it gets is only logged.
ProcessNewImage(s, e) ==
    LET img == s.images[e]
    IN  IF ~s.isEnabled THEN s
        ELSE IF img.cls \/ e \in s.imageElementsProcessed THEN s
        ELSE IF img.src = "none" THEN s
        ELSE LET s1 == AddClass(Register(s, "image", e), "image", e)
                 blurred == ApplyImmediateImageBlur(s1.images[e])
             IN  [s1 EXCEPT !.images[e] =
                     IF blurred.complete THEN blurred
                     ELSE [blurred EXCEPT !.onload = -1]]

\* The batch whose item k waits for image e (0 when there is none)
WaitingBatch(s, e, k) ==
    LET bs == {b \in 1..Len(s.batches) :
                  /\ k \in 1..Len(s.batches[b])
                  /\ s.batches[b][k].el = e
                  /\ s.batches[b][k].st = "wait"}
    IN  IF bs = {} THEN 0 ELSE CHOOSE b \in bs : \A c \in bs : c <= b

SettleItem(s, e, k, st) ==
    LET b == WaitingBatch(s, e, k)
    IN  IF b = 0 THEN s ELSE [s EXCEPT !.batches[b][k].st = st]

\* The image loads with the given size: the document's capturing load
\* listener calls processNewImage, then the image's own onload handler runs
\* (processImageElement is not defined there either: the item is rejected).
ImageLoad(s, e, size) ==
    LET owner == s.images[e].onload
        s1 == [s EXCEPT !.images[e].complete = TRUE, !.images[e].nat = size,
                        !.images[e].w = size, !.images[e].onload = 0]
        s2 == ProcessNewImage(s1, e)
    IN  IF owner > 0 THEN SettleItem(s2, e, owner, "rejected") ELSE s2

\* The image fails to load: its onerror handler resolves the item as skipped.
ImageError(s, e) ==
    LET owner == s.images[e].onload
        s1 == [s EXCEPT !.images[e].complete = TRUE, !.images[e].onload = 0]
    IN  IF owner > 0 THEN SettleItem(s1, e, owner, "fulfilled") ELSE s1

\* The 5 s timeout of processElement for an item waiting for its image
LoadTimeout(s, task) ==
    LET e == task.els[1]
    IN  IF ~s.images[e].complete THEN SettleItem(s, e, task.i, "fulfilled") ELSE s

TimerCallback(s, task) ==
    CASE task.k = "chunk" -> ChunkCallback(s, task)
      [] task.k = "push" -> PushCallback(s, task)
      [] task.k = "processNextBatch" -> ProcessNextBatch(s)
      [] task.k = "loadTimeout" -> LoadTimeout(s, task)
      [] task.k = "debouncedScan" -> ScanContentForModeration(s)

(***************************************************************************)
(* The actions: one per task of the event loop.  The callback of          *)
(* Promise.allSettled is a microtask: it runs before any further task.    *)
(***************************************************************************)
MicrotaskPending == \E b \in 1..Len(batches) : AllSettled(batches[b])

Trigger == ~MicrotaskPending /\ events < MaxEvents /\ events' = events + 1
Internal == ~MicrotaskPending /\ UNCHANGED events

\* a periodic scan, the debounced mutation callback or a status message
ScanContent ==
    /\ Trigger
    /\ isEnabled /\ backendRunning
    /\ Becomes(ScanContentForModeration(State))

\* a periodic image scan or a mutation callback that saw an image
ScanImages ==
    /\ Trigger
    /\ isEnabled
    /\ Becomes(ScanImagesForModeration(State))

\* initialize and the delayed initialization
InitialImagePass ==
    /\ Trigger
    /\ Becomes(ApplyImmediateBlurToAllImages(State))

\* the image observer or the DOMAttrModified listener reports an image
NewImage ==
    /\ Trigger
    /\ isEnabled
    /\ \E e \in ImgElems : images[e].connected /\ Becomes(ProcessNewImage(State, e))

ToggleMessage ==
    /\ Trigger
    /\ \E enabled \in BOOLEAN : Becomes(ToggleProtection(State, enabled))

RegistryReset ==
    /\ Trigger
    /\ Becomes(ResetProcessedSets(State))

\* the background script reports the state of the Analysis Service
BackendStatusMessage ==
    /\ Trigger
    /\ \E running \in BOOLEAN : Becomes(BackendStatusChanged(State, running))

\* the user clicks "Show Image" on an overlay
ShowClick ==
    /\ Trigger
    /\ \E e \in ImgElems :
        /\ images[e].overlay
        /\ Becomes([State EXCEPT !.images[e] = ShowImage(@)])

\* the mutation observer reports changes of the document
Mutation ==
    /\ Trigger
    /\ \E hasNewImages \in BOOLEAN : Becomes(MutationCallback(State, hasNewImages))

\* The timer that is due fires.
TimerFires ==
    /\ Internal
    /\ timers # <<>>
    /\ timers[1].rem = 0
    /\ timers[1].k \notin StartupTasks
    /\ Becomes(TimerCallback([State EXCEPT !.timers = Tail(@)], timers[1]))

\* 50 ms pass with no timer due.
Tick ==
    /\ Internal
    /\ timers # <<>>
    /\ timers[1].rem > 0
    /\ Becomes([State EXCEPT !.timers = [k \in 1..Len(@) |-> [@[k] EXCEPT !.rem = @ - 1]]])

TextVerdictArrives ==
    /\ Internal
    /\ \E b \in 1..Len(batches) : \E k \in 1..Len(batches[b]) :
        /\ batches[b][k].st = "fetch"
        /\ \E resp \in Responses :
           \E near \in IF texts[batches[b][k].el].ind > 0 THEN BOOLEAN ELSE {FALSE} :
            Becomes(TextResponse(State, b, k, resp, near))

ImageVerdictArrives ==
    /\ Internal
    /\ \E e \in imageFetches, resp \in ImageResponses :
        Becomes(ProcessImageVerdict(State, e, resp))

BatchCompletes ==
    /\ \E b \in 1..Len(batches) :
        /\ AllSettled(batches[b])
        /\ Becomes(BatchComplete(State, b))
    /\ UNCHANGED events

Next ==
    \/ ScanContent
    \/ ScanImages
    \/ InitialImagePass
    \/ NewImage
    \/ ToggleMessage
    \/ RegistryReset
    \/ BackendStatusMessage
    \/ ShowClick
    \/ Mutation
    \/ TimerFires
    \/ Tick
    \/ TextVerdictArrives
    \/ ImageVerdictArrives
    \/ BatchCompletes

Spec == Init /\ [][Next]_<<vars, textVars, storeVars, backendVars, lifeVars, pageVars>>


(***************************************************************************)
(* Claims settled under Spec.                                              *)
(***************************************************************************)
IsPrefix(p, q) == Len(p) <= Len(q) /\ SubSeq(q, 1, Len(p)) = p

\* The batch holds an item whose promise is still pending.
Unsettled(batch) == \E k \in 1..Len(batch) : batch[k].st \notin {"fulfilled", "rejected"}

\* C1 (single-flight dispatch): at most one batch is in flight; a call of
\* processNextBatch while currentlyProcessing is true, while the queue is
\* empty or while the pipeline is disabled changes nothing; and no step taken
\* while a cycle runs or while the pipeline is disabled removes an item from
\* the queue or starts a batch.
C1_SingleFlight ==
    [][/\ Len(batches') <= 1
       /\ (currentlyProcessing' \/ processingQueue' = <<>> \/ ~isEnabled')
            => /\ ProcessNextBatch(State)' = State'
       /\ (currentlyProcessing \/ ~isEnabled)
            => /\ IsPrefix(processingQueue, processingQueue')
               /\ Len(batches') <= Len(batches)]_vars

\* Every timer has fired, the timers of processNextBatch included, while a
\* cycle was running and items were queued: the batch is still in flight and
\* the items are still queued.
C1_Witness ==
    /\ isEnabled
    /\ currentlyProcessing
    /\ processingQueue # <<>>
    /\ timers = <<>>
    /\ Len(batches) = 1
    /\ Unsettled(batches[1])

\* C2 (batch fan-in): currentlyProcessing is reset only in a state where
\* every item of the batch has settled, fulfilled or rejected; as long as an
\* item is pending the cycle stays marked running, no item leaves the queue
\* and no batch is started.
C2_BatchFanIn ==
    [][/\ (currentlyProcessing /\ ~currentlyProcessing')
            => \A b \in 1..Len(batches) : ~Unsettled(batches[b])
       /\ (\E b \in 1..Len(batches) : Unsettled(batches[b]))
            => /\ currentlyProcessing'
               /\ IsPrefix(processingQueue, processingQueue')
               /\ Len(batches') <= Len(batches)]_vars

\* The last item of a batch has settled: the batch held an image, rejected
\* at once, and a text whose verdict came later and filtered it; items wait
\* in the queue and the cycle is still marked running.
C2_Witness ==
    /\ currentlyProcessing
    /\ processingQueue # <<>>
    /\ Len(batches) = 1
    /\ ~Unsettled(batches[1])
    /\ \E j, k \in 1..Len(batches[1]) :
          /\ batches[1][j].type = "image" /\ batches[1][j].st = "rejected"
          /\ batches[1][k].type = "text" /\ batches[1][k].st = "fulfilled"
          /\ texts[batches[1][k].el].filt

\* C3 (idempotent discovery): between two registry resets every element is
\* pushed to the processing queue at most once.
C3_IdempotentDiscovery == \A e \in Elements : pushes[e] <= 1

\* C5 (image reversibility): when enabled goes from true to false, every
\* image that was blurred and wrapped is, after the restore sweep, still in
\* the document, not blurred, and without wrapper and overlay.
C5_ImageReversibility ==
    [][(isEnabled /\ ~isEnabled')
        => \A e \in ImgElems :
             (images[e].connected /\ images[e].blur /\ images[e].wrappers > 0)
                => /\ images'[e].connected
                   /\ ~images'[e].blur
                   /\ images'[e].wrappers = 0
                   /\ ~images'[e].overlay]_vars

\* C6 (late verdict discarded): while enabled is and stays false, no step
\* (the arrival of a verdict included) changes the text, the marker or the
\* indicator of a text element, or the blur, the wrapper, the overlay or the
\* marker of an image: no element becomes filtered.
C6_LateVerdictDiscarded ==
    [][(~isEnabled /\ ~isEnabled')
        => /\ \A e \in TextElems :
                /\ texts'[e].text = texts[e].text
                /\ texts'[e].filt = texts[e].filt
                /\ texts'[e].ind = texts[e].ind
           /\ \A e \in ImgElems :
                /\ images'[e].blur = images[e].blur
                /\ images'[e].wrappers = images[e].wrappers
                /\ images'[e].overlay = images[e].overlay
                /\ images'[e].fclass = images[e].fclass]_vars

\* C9 (small images): an image whose naturalWidth is 40 is in no state in
\* the processing queue, in a batch, or under analysis.
C9_SmallImageNeverQueued ==
    \A e \in ImgElems :
        images[e].nat = SmallSize
            => /\ \A k \in 1..Len(processingQueue) : processingQueue[k].el # e
               /\ \A b \in 1..Len(batches) :
                    \A k \in 1..Len(batches[b]) : batches[b][k].el # e
               /\ e \notin imageFetches

\* C12 (one modification per element): a text element has at most one
\* indicator, an image at most one wrapper (and, having one overlay flag, at
\* most one overlay), whatever filter, show-click and re-filter steps ran.
C12_SingleModification ==
    /\ \A e \in TextElems : texts[e].ind <= 1
    /\ \A e \in ImgElems : images[e].wrappers <= 1

\* The batch holds an item whose promise was rejected.
HasRejected(batch) == \E k \in 1..Len(batch) : batch[k].st = "rejected"

\* C13 (failure isolation): beside a rejected item, a pending item of the
\* batch stays pending until it is fulfilled, and the batch stays in flight;
\* once all items of a batch with a rejected item have settled, the next
\* step resets currentlyProcessing, leaves the queue as it is and, when the
\* queue is not empty, schedules processNextBatch after BATCH_DELAY.
C13_FailureIsolation ==
    [][\A b \in 1..Len(batches) :
        HasRejected(batches[b])
            => IF Unsettled(batches[b])
               THEN /\ currentlyProcessing'
                    /\ Len(batches') = Len(batches)
                    /\ \A k \in 1..Len(batches[b]) :
                          /\ batches'[b][k].el = batches[b][k].el
                          /\ batches[b][k].st = "fetch"
                                => batches'[b][k].st \in {"fetch", "fulfilled"}
               ELSE /\ ~currentlyProcessing'
                    /\ Len(batches') = Len(batches) - 1
                    /\ processingQueue' = processingQueue
                    /\ processingQueue # <<>>
                          => \E j \in 1..Len(timers') :
                                /\ timers'[j].k = "processNextBatch"
                                /\ timers'[j].rem = BATCH_DELAY]_vars

\* A cycle has completed and the next one is scheduled, although an image it
\* dispatched was rejected; a text it dispatched was filtered.
C13_Witness ==
    /\ ~currentlyProcessing
    /\ batches = <<>>
    /\ processingQueue # <<>>
    /\ \E j \in 1..Len(timers) :
          timers[j].k = "processNextBatch" /\ timers[j].rem = BATCH_DELAY
    /\ \E e \in ImgElems :
          /\ pushes[e] > 0
          /\ \A k \in 1..Len(processingQueue) : processingQueue[k].el # e
    /\ \E e \in TextElems : texts[e].filt

\* The analysis requests in flight: the text items of the batches that await
\* their fetch, and the images processImage awaits a fetch for.
Requests(bs, fs) ==
    {<<b, k>> \in (1..Len(bs)) \X (1..BATCH_SIZE) :
        k <= Len(bs[b]) /\ bs[b][k].st = "fetch"}
    \cup {<<0, e>> : e \in fs}

\* C19 (no remote request while unavailable): no step taken while the
\* availability flag is false sends an analysis request.
C19_NoRequestWhenUnavailable ==
    [][~backendRunning
        => Requests(batches', imageFetches') \subseteq Requests(batches, imageFetches)]_vars

\* C20 (debounce): the mutation notifications of one debounce window leave
\* one scanContentForModeration call pending, not one each.
C20_DebounceCoalesces ==
    Cardinality({k \in 1..Len(timers) : timers[k].k = "debouncedScan"}) <= 1


(***************************************************************************)
(* SpecLoad: a page whose only content is an image that has not loaded     *)
(* when it is discovered.  The load, the load error and the 5 s timeout    *)
(* of processElement race.                                                 *)
(***************************************************************************)
UnloadedImage == ImageElement("plain", 0, LargeSize, FALSE)

InitLoad ==
    /\ isEnabled = TRUE
    /\ backendRunning = TRUE
    /\ currentlyProcessing = FALSE
    /\ processingQueue = <<>>
    /\ textElementsProcessed = {}
    /\ imageElementsProcessed = {}
    /\ texts = [e \in TextElems |-> [TextElement(PageText(e)) EXCEPT !.connected = FALSE]]
    /\ images = [e \in ImgElems |-> UnloadedImage]
    /\ timers = <<>>
    /\ batches = <<>>
    /\ imageFetches = {}
    /\ events = 0
    /\ pushes = [e \in Elements |-> 0]
    /\ origin = [e \in Elements |-> IF e \in TextElems THEN texts[e] ELSE images[e]]
    /\ TextUnused
    /\ BackendUnused
    /\ LifeUnused
    /\ PageUnused
    /\ StoreUnused

\* the image finishes loading, with its natural size
ImageLoads ==
    /\ Internal
    /\ \E e \in ImgElems, size \in {SmallSize, LargeSize} :
        /\ images[e].connected /\ ~images[e].complete
        /\ Becomes(ImageLoad(State, e, size))

\* the image fails to load
ImageFails ==
    /\ Internal
    /\ \E e \in ImgElems :
        /\ images[e].connected /\ ~images[e].complete
        /\ Becomes(ImageError(State, e))

NextLoad ==
    \/ ScanContent
    \/ RegistryReset
    \/ ImageLoads
    \/ ImageFails
    \/ TimerFires
    \/ Tick
    \/ BatchCompletes

SpecLoad == InitLoad /\ [][NextLoad]_<<vars, textVars, storeVars, backendVars, lifeVars, pageVars>>

\* C14: every dispatch cycle completes.  An item of a running cycle that
\* waits for its image can still settle: its image is not complete yet, so
\* that the load or the load error (through the handlers) or the 5 s timeout
\* (which resolves only an image that is not complete) will settle it.  Once
\* the image is complete nothing settles the item any more, the callback of
\* Promise.allSettled never runs and currentlyProcessing stays true.
C14_WaitingItemSettles ==
    \A b \in 1..Len(batches) : \A k \in 1..Len(batches[b]) :
        batches[b][k].st = "wait" => ~images[batches[b][k].el].complete


(***************************************************************************)
(* SpecStore: the content script and chrome.storage.local, which holds     *)
(* the enabled flag, the per-kind filtered counters and the history list.  *)
(* Every call of chrome.storage.local is asynchronous: a get returns in a  *)
(* later task, whose callback may issue a set, which is applied later      *)
(* still.  The messages to the background script are not modelled: its     *)
(* handler is no part of the sources.  The page holds a heading and an    *)
(* image.                                                                  *)
(***************************************************************************)
S_ImageUrl == <<"I", "m", "a", "g", "e", " ", "U", "R", "L", ":", " ">>

HistoryPreviewLength == 100
ImagePreviewLength == 50
MaxHistory == 100

\* saveFilterHistory, the history item it builds; the time of the clock is
\* a number
HistoryItem(type, content, reasons, now) ==
    [type |-> type,
     content |-> IF type = "image"
                 THEN S_ImageUrl \o SubSeq(content, 1, Min(ImagePreviewLength, Len(content)))
                      \o S_Ellipsis
                 ELSE SubSeq(content, 1, Min(HistoryPreviewLength, Len(content)))
                      \o (IF Len(content) > HistoryPreviewLength THEN S_Ellipsis ELSE <<>>),
     originalContent |-> content,
     reasons |-> reasons \ {""},
     timestamp |-> now, url |-> "href", domain |-> "hostname"]

\* What the store holds when the page is loaded: an earlier page has counted
\* one text and one image and has left one item in the history.
StoredBefore ==
    [enabled |-> TRUE, textFiltered |-> 1, imagesFiltered |-> 1,
     filterHistory |-> <<HistoryItem("text", W_kill \o W_sp \o W_them, {"earlier"}, 1)>>]

\* a call of chrome.storage.local under way: get([key], callback), or
\* set({key: value}) with a number, a flag or a list for its value
GetOp(key, item) ==
    [op |-> "get", key |-> key, num |-> 0, flag |-> FALSE, item |-> item, list |-> <<>>]
SetOp(key, num, flag, list) ==
    [op |-> "set", key |-> key, num |-> num, flag |-> flag, item |-> <<>>, list |-> list]

\* updateStats(type), its direct update of the store: the get is issued
UpdateStats(ops, type) ==
    Append(ops, GetOp(IF type = "image" THEN "imagesFiltered" ELSE "textFiltered", <<>>))

\* saveFilterHistory(type, content, reasons): the get is issued.  No
\* function of the content script calls it.
SaveFilterHistory(ops, type, content, reasons, now) ==
    IF content = <<>> THEN ops
    ELSE Append(ops, GetOp("filterHistory", HistoryItem(type, content, reasons, now)))

\* the message listener, toggleProtection / setEnabled: chrome.storage.local.set({enabled})
SaveEnabled_ClearsHistory(ops, enabled) ==
    Append(Append(ops, SetOp("enabled", 0, enabled, <<>>)),
           SetOp("filterHistory", 0, FALSE, <<>>))

SaveEnabled(ops, enabled) == Append(ops, SetOp("enabled", 0, enabled, <<>>))

\* the callback of a get that appends the item and keeps the last 100
GetCallback_EvictsNewest(sto, op) ==
    IF op.key = "filterHistory"
    THEN LET history == sto.filterHistory \o <<op.item>>
         IN  SetOp(op.key, 0, FALSE, SubSeq(history, 1, Min(MaxHistory, Len(history))))
    ELSE SetOp(op.key, sto[op.key] + 1, FALSE, <<>>)

\* the callback of a get: the set it issues
GetCallback(sto, op) ==
    IF op.key = "filterHistory"
    THEN LET history == <<op.item>> \o sto.filterHistory
         IN  SetOp(op.key, 0, FALSE, SubSeq(history, 1, Min(MaxHistory, Len(history))))
    ELSE SetOp(op.key, sto[op.key] + 1, FALSE, <<>>)

\* chrome.storage.local.set: the key is written, the other keys are kept
StorageSet(sto, op) ==
    CASE op.key = "enabled" -> [sto EXCEPT !.enabled = op.flag]
      [] op.key = "filterHistory" -> [sto EXCEPT !.filterHistory = op.list]
      [] OTHER -> [sto EXCEPT ![op.key] = op.num]

RemoveAt(seq, k) == SubSeq(seq, 1, k - 1) \o SubSeq(seq, k + 1, Len(seq))

InitStore ==
    /\ isEnabled = TRUE
    /\ backendRunning = TRUE
    /\ currentlyProcessing = FALSE
    /\ processingQueue = <<>>
    /\ textElementsProcessed = {}
    /\ imageElementsProcessed = {}
    /\ texts = [e \in TextElems |->
                    [TextElement(PageText(e)) EXCEPT !.connected = e \in Headings]]
    /\ images = [e \in ImgElems |-> ImageElement("plain", LargeSize, LargeSize, TRUE)]
    /\ timers = <<>>
    /\ batches = <<>>
    /\ imageFetches = {}
    /\ events = 0
    /\ pushes = [e \in Elements |-> 0]
    /\ origin = [e \in Elements |-> IF e \in TextElems THEN texts[e] ELSE images[e]]
    /\ TextUnused
    /\ BackendUnused
    /\ LifeUnused
    /\ PageUnused
    /\ store = StoredBefore
    /\ storageOps = <<>>
    /\ filterActions = [text |-> 0, image |-> 0]

\* the response for a text arrives: a text that is filtered is counted
TextVerdictStored ==
    /\ Internal
    /\ \E b \in 1..Len(batches) : \E k \in 1..Len(batches[b]) :
        /\ batches[b][k].st = "fetch"
        /\ \E resp \in Responses :
           \E near \in IF texts[batches[b][k].el].ind > 0 THEN BOOLEAN ELSE {FALSE} :
            /\ Assign(TextResponse(State, b, k, resp, near))
            /\ IF ProcessTextStatus(batches[b][k].txt, resp) = "filtered"
               THEN /\ storageOps' = UpdateStats(storageOps, "text")
                    /\ filterActions' = [filterActions EXCEPT !.text = @ + 1]
               ELSE UNCHANGED <<storageOps, filterActions>>
    /\ UNCHANGED store

\* the response for an image arrives: an image that is filtered is counted
ImageVerdictStored ==
    /\ Internal
    /\ \E e \in imageFetches, resp \in ImageResponses :
        /\ Assign(ProcessImageVerdict(State, e, resp))
        /\ IF resp \in {"unsafe", "questionable"}
           THEN /\ storageOps' = UpdateStats(storageOps, "image")
                /\ filterActions' = [filterActions EXCEPT !.image = @ + 1]
           ELSE UNCHANGED <<storageOps, filterActions>>
    /\ UNCHANGED store

\* a toggle message: the handler and its write of the enabled flag
ToggleStored ==
    /\ Trigger
    /\ \E enabled \in BOOLEAN :
        /\ Assign(ToggleProtection(State, enabled))
        /\ storageOps' = SaveEnabled(storageOps, enabled)
    /\ UNCHANGED <<store, filterActions>>

\* a get returns: its callback runs and issues the set
StorageGetReturns ==
    /\ ~MicrotaskPending
    /\ \E k \in 1..Len(storageOps) :
        /\ storageOps[k].op = "get"
        /\ storageOps' = Append(RemoveAt(storageOps, k), GetCallback(store, storageOps[k]))
    /\ UNCHANGED <<store, filterActions, vars, textVars, backendVars, lifeVars, pageVars>>

\* a set is applied to the store
StorageSetApplied ==
    /\ \E k \in 1..Len(storageOps) :
        /\ storageOps[k].op = "set"
        /\ store' = StorageSet(store, storageOps[k])
        /\ storageOps' = RemoveAt(storageOps, k)
    /\ UNCHANGED <<filterActions, vars, textVars, backendVars, lifeVars, pageVars>>

NextStore ==
    \/ ScanContent
    \/ ScanImages
    \/ ToggleStored
    \/ TimerFires
    \/ Tick
    \/ TextVerdictStored
    \/ ImageVerdictStored
    \/ BatchCompletes
    \/ StorageGetReturns
    \/ StorageSetApplied

SpecStore == InitStore /\ [][NextStore]_<<vars, textVars, storeVars, backendVars, lifeVars, pageVars>>


(***************************************************************************)
(* Claims settled under SpecStore.                                         *)
(***************************************************************************)
\* the calls under way that read or write the given key
OpsOn(key) == {k \in 1..Len(storageOps) : storageOps[k].key = key}

\* C15: global restore leaves the history and the per-kind counters as they
\* are.  The task that turns protection off changes nothing in the store
\* and issues one write, of the key enabled; and when that write is applied
\* (the stored flag changes), the history list and the two counters are the
\* same after it as before.
C15_RestoreKeepsStore ==
    [][/\ (isEnabled /\ ~isEnabled')
            => /\ store' = store
               /\ Len(storageOps') = Len(storageOps) + 1
               /\ SubSeq(storageOps', 1, Len(storageOps)) = storageOps
               /\ storageOps'[Len(storageOps')] = SetOp("enabled", 0, FALSE, <<>>)
       /\ (store'.enabled # store.enabled)
            => /\ store'.filterHistory = store.filterHistory
               /\ store'.textFiltered = store.textFiltered
               /\ store'.imagesFiltered = store.imagesFiltered]_<<vars, textVars, storeVars, backendVars, lifeVars, pageVars>>

\* Protection was turned off after the heading was filtered and counted:
\* the heading has its text back, the flag stored is false, no call is under
\* way, the counter stands above its value at load and the history is the
\* one found at load.
C15_Witness ==
    /\ ~isEnabled
    /\ store.enabled = FALSE
    /\ storageOps = <<>>
    /\ filterActions.text > 0
    /\ \A e \in Headings : ~texts[e].filt /\ texts[e].text = origin[e].text
    /\ store.textFiltered > StoredBefore.textFiltered
    /\ store.filterHistory = StoredBefore.filterHistory
    /\ store.filterHistory # <<>>

\* C16: every filter action appends one entry to the history.  At any
\* moment the entries of the stored list, with the appends still under way,
\* are those found at load and one for each filter action taken (the cap of
\* 100 entries is out of reach here).
C16_HistoryAppended ==
    Len(store.filterHistory) + Cardinality(OpsOn("filterHistory"))
        = Len(StoredBefore.filterHistory) + filterActions.text + filterActions.image

\* C17: the statistics count the filter actions exactly.  Whenever no call
\* on a counter is under way, the counter stored has grown since load by the
\* number of filter actions of its kind.
C17_StatsExact ==
    /\ OpsOn("textFiltered") = {}
        => store.textFiltered = StoredBefore.textFiltered + filterActions.text
    /\ OpsOn("imagesFiltered") = {}
        => store.imagesFiltered = StoredBefore.imagesFiltered + filterActions.image


(***************************************************************************)
(* Further claims settled under Spec.                                      *)
(***************************************************************************)
\* an image in the state Filtered: blurred, or carrying a filtered marker
ImageFiltered(img) == img.blur \/ img.fattr \/ img.fclass

\* the text element is in the state Analyzing: an item for it awaits its response
TextAnalyzing(e) ==
    \E b \in 1..Len(batches) : \E k \in 1..Len(batches[b]) :
        batches[b][k].el = e /\ batches[b][k].st = "fetch"

\* C21: the state machine of an element.  A step that takes an element into
\* Filtered finds it in Analyzing (its request sent, the verdict arriving in
\* that step); a step that takes an element out of Filtered is the global
\* restore (enabled goes from true to false) or, for an image, the click on
\* its overlay.
C21_ElementStateMachine ==
    [][/\ \A e \in ImgElems :
            /\ (~ImageFiltered(images[e]) /\ ImageFiltered(images'[e]))
                    => e \in imageFetches
            /\ (ImageFiltered(images[e]) /\ ~ImageFiltered(images'[e]))
                    => \/ isEnabled /\ ~isEnabled'
                       \/ images[e].overlay /\ ~images'[e].overlay
       /\ \A e \in TextElems :
            /\ (~texts[e].filt /\ texts'[e].filt) => TextAnalyzing(e)
            /\ (texts[e].filt /\ ~texts'[e].filt) => isEnabled /\ ~isEnabled']_vars


(***************************************************************************)
(* SpecImage: a page whose only content is an image, over the sources an   *)
(* image can have (a trusted domain, a sensitive keyword in the URL, any   *)
(* other), loaded or not, with the Analysis Service running or not.        *)
(***************************************************************************)
ImageSourceInputs ==
    {ImageElement(src, LargeSize, LargeSize, TRUE) : src \in {"plain", "safe", "sensitive"}}
        \cup {UnloadedImage}

InitImage ==
    /\ isEnabled = TRUE
    /\ backendRunning \in BOOLEAN
    /\ currentlyProcessing = FALSE
    /\ processingQueue = <<>>
    /\ textElementsProcessed = {}
    /\ imageElementsProcessed = {}
    /\ texts = [e \in TextElems |-> [TextElement(PageText(e)) EXCEPT !.connected = FALSE]]
    /\ images \in [ImgElems -> ImageSourceInputs]
    /\ timers = <<>>
    /\ batches = <<>>
    /\ imageFetches = {}
    /\ events = 0
    /\ pushes = [e \in Elements |-> 0]
    /\ origin = [e \in Elements |-> IF e \in TextElems THEN texts[e] ELSE images[e]]
    /\ TextUnused
    /\ BackendUnused
    /\ LifeUnused
    /\ PageUnused
    /\ StoreUnused

NextImage ==
    \/ ScanContent
    \/ ScanImages
    \/ InitialImagePass
    \/ NewImage
    \/ ImageLoads
    \/ ImageFails
    \/ TimerFires
    \/ Tick
    \/ ImageVerdictArrives
    \/ BatchCompletes

SpecImage == InitImage /\ [][NextImage]_<<vars, textVars, storeVars, backendVars, lifeVars, pageVars>>

\* nothing is under way for the image: it is in no queue item, in no batch
\* and no request for it is out
ImageIdle(e) ==
    /\ e \notin imageFetches
    /\ \A k \in 1..Len(processingQueue) : processingQueue[k].el # e
    /\ batches = <<>>
    /\ \A k \in 1..Len(timers) : timers[k].els = <<>>

\* C22: the fallback for images.  With the Analysis Service not running, an
\* image that the content script has dealt with (it carries the processed
\* mark and nothing is under way for it) is filtered if and only if its URL
\* holds a word of the sensitive-keyword list.
C22_ImageFallback ==
    \A e \in ImgElems :
        (~backendRunning /\ images[e].cls /\ ImageIdle(e))
            => (ImageFiltered(images[e]) <=> MightBeSensitive(images[e]))

\* C23: an image from a trusted domain, or one that has not loaded, is not
\* sent to the Analysis Service and not pushed to the queue by any step.
C23_SkippedImagesStayOut ==
    [][\A e \in ImgElems :
        (IsSafeSource(images[e]) \/ ~images[e].complete)
            => /\ pushes'[e] <= pushes[e]
               /\ e \in imageFetches' => e \in imageFetches]_vars


(***************************************************************************)
(* SpecCrypt: one ContentFilter instance of the backend.  Its constructor  *)
(* draws a random key and tries to start the Python bridge; encryptContent *)
(* and decryptContent are then called on a content.                        *)
(*                                                                         *)
(* AES is modelled symbolically: a ciphertext is the term made of the key, *)
(* the random salt and the plaintext, and decryption gives the plaintext   *)
(* back under the same key only.                                           *)
(***************************************************************************)
Keys == {"key1", "key2"}
Salts == {"salt1", "salt2"}
Contents == {<<>>, W_all, W_kill, W_kill \o W_sp \o W_all, W_fuck, S_Ellipsis}

\* CryptoJS.AES.encrypt(content, key).toString()
AesEncrypt(content, key, salt) == [key |-> key, salt |-> salt, plain |-> content]

\* CryptoJS.AES.decrypt(encrypted, key).toString(CryptoJS.enc.Utf8): under
\* another key the bytes are no text (the empty string, or the Malformed
\* UTF-8 error that decryptContent catches to return '')
AesDecrypt(encrypted, key) == IF encrypted.key = key THEN encrypted.plain ELSE <<>>

\* ContentFilter.encryptContent
EncryptContent(cf, content, salt) == AesEncrypt(content, cf.key, salt)

\* pythonBridge.decryptContent(encrypted): the bridge gets the ciphertext
\* alone, never this.key.  Its promise rejects, or resolves with a result
\* that holds no decrypted text.
BridgeOutcomes == {"rejects", "resolves"}
BridgeDecrypted(encrypted) == <<>>

\* ContentFilter.decryptContent
DecryptContent(cf, encrypted, bridge) ==
    IF cf.pythonAvailable /\ bridge = "resolves"
    THEN BridgeDecrypted(encrypted)
    ELSE AesDecrypt(encrypted, cf.key)

\* new ContentFilter()
InitCrypt ==
    /\ contentFilter \in
          {[key |-> key, pythonAvailable |-> py, stage |-> "new", content |-> <<>>,
            encrypted |-> AesEncrypt(<<>>, "", ""), bridge |-> "", decrypted |-> <<>>] :
              key \in Keys, py \in BOOLEAN}
    /\ PipelineUnused
    /\ StoreUnused
    /\ TextUnused
    /\ LifeUnused
    /\ PageUnused

CEncrypt ==
    /\ contentFilter.stage = "new"
    /\ \E content \in Contents, salt \in Salts :
        contentFilter' = [contentFilter EXCEPT
            !.stage = "encrypted", !.content = content,
            !.encrypted = EncryptContent(contentFilter, content, salt)]
    /\ UNCHANGED <<vars, textVars, storeVars, lifeVars, pageVars>>

CDecrypt ==
    /\ contentFilter.stage = "encrypted"
    /\ \E bridge \in IF contentFilter.pythonAvailable THEN BridgeOutcomes ELSE {""} :
        contentFilter' = [contentFilter EXCEPT
            !.stage = "decrypted", !.bridge = bridge,
            !.decrypted = DecryptContent(contentFilter, contentFilter.encrypted, bridge)]
    /\ UNCHANGED <<vars, textVars, storeVars, lifeVars, pageVars>>

NextCrypt ==
    \/ CEncrypt
    \/ CDecrypt

SpecCrypt == InitCrypt /\ [][NextCrypt]_<<vars, textVars, storeVars, backendVars, lifeVars, pageVars>>

\* C24: filtered content is recoverable.  Once decryptContent has returned
\* for what encryptContent made of a content, it has returned that content,
\* with the Python bridge available or not.
C24_RoundTrip ==
    contentFilter.stage = "decrypted" => contentFilter.decrypted = contentFilter.content


(***************************************************************************)
(* SpecHistory: saveFilterHistory on a store whose history holds no item,  *)
(* one item, one item less than the maximum, or the maximum.  The items    *)
(* are in the order the function keeps them, the newest first; their       *)
(* timestamps tell them apart.                                             *)
(***************************************************************************)
MaxSaves == 2

HistoryOfLength(n) ==
    [k \in 1..n |-> HistoryItem("text", W_kill \o W_sp \o W_them, {"earlier"}, n + 1 - k)]

InitHistory ==
    /\ \E n \in {0, 1, MaxHistory - 1, MaxHistory} :
        store = [StoredBefore EXCEPT !.filterHistory = HistoryOfLength(n)]
    /\ storageOps = <<>>
    /\ filterActions = [text |-> 0, image |-> 0]
    /\ PipelineUnused
    /\ TextUnused
    /\ BackendUnused
    /\ LifeUnused
    /\ PageUnused

\* saveFilterHistory(type, content, reasons) is called for a filter action
HSave ==
    /\ filterActions.text + filterActions.image < MaxSaves
    /\ \E type \in {"text", "image"}, content \in {<<>>, W_all, W_kill \o W_sp \o W_all} :
        /\ storageOps' = SaveFilterHistory(storageOps, type, content, {"reason"},
                            MaxHistory + 1 + filterActions.text + filterActions.image)
        /\ filterActions' = [filterActions EXCEPT ![type] = @ + 1]
    /\ UNCHANGED <<store, vars, textVars, backendVars, lifeVars, pageVars>>

NextHistory ==
    \/ HSave
    \/ StorageGetReturns
    \/ StorageSetApplied

SpecHistory == InitHistory /\ [][NextHistory]_<<vars, textVars, storeVars, backendVars, lifeVars, pageVars>>

\* the gets of the history that are under way
HistoryGets(ops) ==
    {k \in 1..Len(ops) : ops[k].op = "get" /\ ops[k].key = "filterHistory"}

QueueLengths == {0, 1, BATCH_SIZE - 1, BATCH_SIZE, BATCH_SIZE + 1, BATCH_SIZE + 2}

QueueOfLength(n) ==
    [k \in 1..n |-> IF k \in {1, 4, BATCH_SIZE + 1} THEN Item("text", "h1")
                    ELSE IF k \in {8, BATCH_SIZE + 2} THEN Item("text", "p1")
                    ELSE Item("image", "img1")]

InitQueue ==
    /\ isEnabled = TRUE
    /\ backendRunning = TRUE
    /\ currentlyProcessing = FALSE
    /\ \E n \in QueueLengths : processingQueue = QueueOfLength(n)
    /\ textElementsProcessed = TextElems
    /\ imageElementsProcessed = ImgElems
    /\ texts = [e \in TextElems |-> [OnPage(e) EXCEPT !.cls = TRUE]]
    /\ images = [e \in ImgElems |->
                    [ImageElement("plain", LargeSize, LargeSize, TRUE) EXCEPT !.cls = TRUE]]
    /\ timers = <<[PnbTask EXCEPT !.rem = QueueKick]>>
    /\ batches = <<>>
    /\ imageFetches = {}
    /\ events = 0
    /\ pushes = [e \in Elements |-> 0]
    /\ origin = [e \in Elements |-> IF e \in TextElems THEN texts[e] ELSE images[e]]
    /\ TextUnused
    /\ BackendUnused
    /\ LifeUnused
    /\ PageUnused
    /\ StoreUnused

NextQueue ==
    \/ RegistryReset
    \/ ScanContent
    \/ TimerFires
    \/ Tick
    \/ TextVerdictArrives
    \/ BatchCompletes

SpecQueue == InitQueue /\ [][NextQueue]_<<vars, textVars, storeVars, backendVars, lifeVars, pageVars>>

\* C26: a dispatch cycle takes min(batch size, queue length) items from the
\* head of the queue.  In a step that starts a cycle, the batch is the
\* prefix of that length of the queue, item by item in order, and the queue
\* left is the rest of the old queue in order; the batch size is 10.
C26_BatchIsQueuePrefix ==
    [][Len(batches') > Len(batches)
        => LET batch == batches'[Len(batches')]
               n == Min(10, Len(processingQueue))
           IN  /\ Len(batches') = Len(batches) + 1
               /\ Len(batch) = n
               /\ \A k \in 1..n : /\ batch[k].type = processingQueue[k].type
                                  /\ batch[k].el = processingQueue[k].el
               /\ processingQueue' = SubSeq(processingQueue, n + 1, Len(processingQueue))
      ]_<<vars, textVars, storeVars, backendVars, lifeVars, pageVars>>

\* A cycle has started on a queue of 12 items: the batch holds 10 items, the
\* queue the 2 that were last.
C26_Witness ==
    /\ currentlyProcessing
    /\ Len(batches) = 1
    /\ Len(batches[1]) = BATCH_SIZE
    /\ processingQueue = <<Item("text", "h1"), Item("text", "p1")>>
    /\ pushes = [e \in Elements |-> 0]


(***************************************************************************)
(* Further claims settled under Spec: the order of the queue.              *)
(***************************************************************************)
\* the items of a batch are the given queue items, in order
SameItems(batch, items) ==
    /\ Len(items) <= Len(batch)
    /\ \A k \in 1..Len(items) : batch[k].type = items[k].type /\ batch[k].el = items[k].el

\* C27: the queue is served in the order of the pushes.  In every step the
\* queue loses items at its head only and gains items at its tail only, and
\* the items it loses are the first items of the batch that the step
\* starts: an item pushed before another is dispatched in the same cycle or
\* in an earlier one.  (No item overtakes: priority 'high' is never read,
\* and processNewImage goes around the queue.)
C27_QueueIsFifo ==
    [][\E n \in 0..Len(processingQueue) :
        /\ IsPrefix(SubSeq(processingQueue, n + 1, Len(processingQueue)), processingQueue')
        /\ n > 0 => /\ Len(batches') = Len(batches) + 1
                    /\ SameItems(batches'[Len(batches')], SubSeq(processingQueue, 1, n))
      ]_<<vars, textVars, storeVars, backendVars, lifeVars, pageVars>>

\* A cycle runs on the items pushed first while an item pushed after them,
\* for another element, waits in the queue.
C27_Witness ==
    /\ currentlyProcessing
    /\ Len(batches) = 1
    /\ processingQueue # <<>>
    /\ \A k \in 1..Len(batches[1]) : batches[1][k].el # processingQueue[1].el
    /\ \E k \in 1..Len(batches[1]) : batches[1][k].type = "text"
    /\ processingQueue[1].type = "image"

(***************************************************************************)
(* SpecHealth: the periodic health check of the Analysis Service.         *)
(* setupBackendStatusCheck calls checkBackendStatus at once and then by   *)
(* setInterval; each call fetches /ping, and the fetch is answered or     *)
(* fails in a later task.                                                  *)
(***************************************************************************)

\* checkBackendStatus, up to its fetch: "Always assume backend is running"
CheckBackendStatus(s) == [s EXCEPT !.backendRunning = TRUE]

\* the then callbacks of the fetch: the service answered the ping
PingAnswered(s) ==
    LET s1 == [s EXCEPT !.backendRunning = TRUE]
        s2 == IF s1.isEnabled THEN ScanImagesForModeration(s1) ELSE s1
    IN  IF s1.isEnabled /\ s2.processingQueue = <<>>
        THEN ScanContentForModeration(s2)
        ELSE s2

\* the catch callback of the fetch: the service is unreachable
\* ("Keep backendRunning true for testing")
PingFailed(s) == IF s.isEnabled THEN ScanImagesForModeration(s) ELSE s

\* The flag may be in either state when a check starts: a status message of
\* the background script may have cleared it.
InitHealth ==
    /\ isEnabled \in BOOLEAN
    /\ backendRunning \in BOOLEAN
    /\ currentlyProcessing = FALSE
    /\ processingQueue = <<>>
    /\ textElementsProcessed = {}
    /\ imageElementsProcessed = {}
    /\ texts = [e \in TextElems |-> OnPage(e)]
    /\ images \in [ImgElems -> ImageInputs]
    /\ timers = <<>>
    /\ batches = <<>>
    /\ imageFetches = {}
    /\ events = 0
    /\ pushes = [e \in Elements |-> 0]
    /\ origin = [e \in Elements |-> IF e \in TextElems THEN texts[e] ELSE images[e]]
    /\ LifeUnused
    /\ PageUnused
    /\ TextUnused
    /\ BackendUnused
    /\ StoreUnused

\* the interval of setupBackendStatusCheck fires
HealthCheck ==
    /\ Trigger
    /\ AssignState(CheckBackendStatus(State))
    /\ pings' = pings + 1
    /\ UNCHANGED <<lastCheck, startVars, storeVars>>

PingSucceeds ==
    /\ Internal
    /\ pings > 0
    /\ AssignState(PingAnswered(State))
    /\ pings' = pings - 1
    /\ lastCheck' = "ok"
    /\ UNCHANGED <<startVars, storeVars>>

PingFails ==
    /\ Internal
    /\ pings > 0
    /\ AssignState(PingFailed(State))
    /\ pings' = pings - 1
    /\ lastCheck' = "failed"
    /\ UNCHANGED <<startVars, storeVars>>

NextHealth ==
    \/ HealthCheck
    \/ PingSucceeds
    \/ PingFails
    \/ TimerFires
    \/ Tick
    \/ TextVerdictArrives
    \/ ImageVerdictArrives
    \/ BatchCompletes

SpecHealth == InitHealth /\ [][NextHealth]_<<vars, textVars, storeVars, backendVars, lifeVars, pageVars>>

\* C28: the availability flag reflects the health check that settled: when
\* a fetch of /ping settles, backendRunning is true afterwards if the
\* service answered and false if it was unreachable.
C28_FlagFollowsHealthCheck ==
    [][pings' < pings => (backendRunning' <=> lastCheck' = "ok")
      ]_<<vars, textVars, storeVars, backendVars, lifeVars, pageVars>>

(***************************************************************************)
(* SpecStartup: the start of the content script and the toggle messages.  *)
(* The top level of the script calls initialize when it is loaded and     *)
(* once more, with a further image pass, after a second; initialize reads *)
(* `enabled` from chrome.storage.local, and the callback of the read sets *)
(* a timer that starts the periodic scans.  initialize is declared inside *)
(* performBasicTextAnalysis: the top level reaches it only when the name  *)
(* is bound globally, and stops with a ReferenceError otherwise.  The     *)
(* observers initialize sets up and its message to the background script  *)
(* are left to the environment.  The page holds one loaded image, from a  *)
(* trusted domain or not.                                                  *)
(***************************************************************************)
InitialDelay == 20
DelayedInitWait == 20

\* initialize, what it does to the globals and the page: "Always assume
\* enabled for testing", then setupBackendStatusCheck, then the image pass
Initialize(s) ==
    ApplyImmediateBlurToAllImages(
        CheckBackendStatus([s EXCEPT !.isEnabled = TRUE, !.backendRunning = TRUE]))

\* the callback of chrome.storage.local.get(['enabled']) in initialize
EnabledRead(s, enabled) ==
    LET s1 == [s EXCEPT !.isEnabled = enabled]
    IN  IF s1.isEnabled
        THEN SetTimeout(s1, Task("startFiltering", "", <<>>), InitialDelay)
        ELSE s1

\* the timer callback set by that callback: a scan, then the two intervals,
\* whose handles replace the ones the window holds
StartFilteringIntervals(iv) ==
    [socioIntervalScan |-> TRUE, socioIntervalImageScan |-> TRUE,
     scans |-> iv.scans + 1, imageScans |-> iv.imageScans + 1]

\* the delayed initialization, what it does to the globals and the page
DelayedInitialization(s) ==
    ScanImagesForModeration(ApplyImmediateBlurToAllImages(Initialize(s)))

\* the message listener, toggleProtection / setEnabled: the intervals
ToggleIntervals(iv, previousState, enabled) ==
    IF enabled /\ ~previousState
    THEN [socioIntervalScan |-> TRUE, socioIntervalImageScan |-> TRUE,
          scans |-> IF iv.socioIntervalScan THEN iv.scans ELSE iv.scans + 1,
          imageScans |-> IF iv.socioIntervalImageScan THEN iv.imageScans
                         ELSE iv.imageScans + 1]
    ELSE IF ~enabled /\ previousState
    THEN [socioIntervalScan |-> FALSE, socioIntervalImageScan |-> FALSE,
          scans |-> IF iv.socioIntervalScan THEN iv.scans - 1 ELSE iv.scans,
          imageScans |-> IF iv.socioIntervalImageScan THEN iv.imageScans - 1
                         ELSE iv.imageScans]
    ELSE iv

StartupPage ==
    /\ currentlyProcessing = FALSE
    /\ processingQueue = <<>>
    /\ textElementsProcessed = {}
    /\ imageElementsProcessed = {}
    /\ texts = [e \in TextElems |-> [TextElement(PageText(e)) EXCEPT !.connected = FALSE]]
    /\ images \in [ImgElems -> {ImageElement(src, LargeSize, LargeSize, TRUE) :
                                   src \in {"plain", "safe"}}]
    /\ timers = <<>>
    /\ batches = <<>>
    /\ imageFetches = {}
    /\ events = 0
    /\ pushes = [e \in Elements |-> 0]
    /\ origin = [e \in Elements |-> IF e \in TextElems THEN texts[e] ELSE images[e]]
    /\ pings = 0
    /\ lastCheck = "none"
    /\ boot = "load"
    /\ intervals = NoIntervals
    /\ toggles = <<>>
    /\ acks = <<>>
    /\ storageOps = <<>>
    /\ filterActions = [text |-> 0, image |-> 0]
    /\ TextUnused
    /\ BackendUnused
    /\ PageUnused

\* The content script is loaded with protection switched off in the store.
\* Until initialize runs the globals hold what their declarations give.
InitStartup ==
    /\ isEnabled = TRUE
    /\ backendRunning = TRUE
    /\ store = [StoredBefore EXCEPT !.enabled = FALSE]
    /\ StartupPage

\* The top level of the script runs: initialize, then the timer of the
\* delayed initialization is set.
ScriptLoads ==
    /\ Internal
    /\ boot = "load"
    /\ \E bound \in BOOLEAN :
        IF bound
        THEN /\ boot' = "run"
             /\ AssignState(SetTimeout(Initialize(State), Task("delayedInit", "", <<>>),
                                       DelayedInitWait))
             /\ pings' = pings + 1
             /\ storageOps' = Append(storageOps, GetOp("enabled", <<>>))
             /\ UNCHANGED <<lastCheck, intervals, toggles, acks, store, filterActions>>
        ELSE /\ boot' = "aborted"
             /\ UNCHANGED <<vars, textVars, storeVars, backendVars, healthVars,
                            intervals, toggles, acks, pageVars>>

\* The timer of the delayed initialization fires.
DelayedInitFires ==
    /\ Internal
    /\ timers # <<>>
    /\ timers[1].rem = 0
    /\ timers[1].k = "delayedInit"
    /\ AssignState(DelayedInitialization([State EXCEPT !.timers = Tail(@)]))
    /\ pings' = pings + 1
    /\ storageOps' = Append(storageOps, GetOp("enabled", <<>>))
    /\ intervals' = [intervals EXCEPT !.imageScans = @ + 1]
    /\ UNCHANGED <<lastCheck, boot, toggles, acks, store, filterActions>>

\* The read of `enabled` returns.
EnabledReadReturns ==
    /\ Internal
    /\ \E k \in 1..Len(storageOps) :
        /\ storageOps[k].op = "get"
        /\ storageOps[k].key = "enabled"
        /\ AssignState(EnabledRead(State, store.enabled))
        /\ storageOps' = RemoveAt(storageOps, k)
    /\ UNCHANGED <<store, filterActions, lifeVars, pageVars>>

\* The timer set by the callback of the read fires.
StartFilteringFires ==
    /\ Internal
    /\ timers # <<>>
    /\ timers[1].rem = 0
    /\ timers[1].k = "startFiltering"
    /\ AssignState(ScanContentForModeration([State EXCEPT !.timers = Tail(@)]))
    /\ intervals' = StartFilteringIntervals(intervals)
    /\ UNCHANGED <<healthVars, boot, toggles, acks, storeVars>>

\* A toggle message arrives: the handler, its write of the flag and its
\* acknowledgement {status, enabled: isEnabled}.
ToggleReceived ==
    /\ Trigger
    /\ boot = "run"
    /\ \E enabled \in BOOLEAN :
        LET s == ToggleProtection(State, enabled)
        IN  /\ AssignState(s)
            /\ intervals' = ToggleIntervals(intervals, isEnabled, enabled)
            /\ storageOps' = SaveEnabled(storageOps, s.isEnabled)
            /\ toggles' = Append(toggles, enabled)
            /\ acks' = Append(acks, s.isEnabled)
    /\ UNCHANGED <<healthVars, boot, store, filterActions>>

\* an interval of scanContentForModeration fires
PeriodicScan == intervals.scans > 0 /\ ScanContent

\* an interval of scanImagesForModeration fires
PeriodicImageScan == intervals.imageScans > 0 /\ ScanImages

\* the background script reports the state of the Analysis Service
StatusReceived == boot = "run" /\ BackendStatusMessage

NextStartup ==
    \/ ScriptLoads
    \/ DelayedInitFires
    \/ EnabledReadReturns
    \/ StartFilteringFires
    \/ ToggleReceived
    \/ PeriodicScan
    \/ PeriodicImageScan
    \/ StatusReceived
    \/ PingSucceeds
    \/ PingFails
    \/ StorageSetApplied
    \/ TimerFires
    \/ Tick
    \/ ImageVerdictArrives
    \/ BatchCompletes

SpecStartup == InitStartup /\ [][NextStartup]_<<vars, textVars, storeVars, backendVars, lifeVars, pageVars>>

\* no element has been pushed, analysed or visually modified
Untouched ==
    /\ \A e \in Elements : pushes[e] = 0
    /\ processingQueue = <<>>
    /\ batches = <<>>
    /\ imageFetches = {}
    /\ \A e \in ImgElems : ~ImageFiltered(images[e]) /\ images[e].wrappers = 0
    /\ \A e \in TextElems : texts[e].text = origin[e].text /\ ~texts[e].filt

\* C29: start-up honours the stored setting: with enabled = false in the
\* store when the content script is loaded, no element is pushed to the
\* queue, analysed or visually modified as long as no toggle message has
\* set enabled to true.
C29_StartupHonoursSetting ==
    (\A i \in 1..Len(toggles) : ~toggles[i]) => Untouched


\* a toggle message is handled in this step; the value it carries
ToggleStep == Len(toggles') = Len(toggles) + 1
Carried == toggles'[Len(toggles')]

\* every periodic scan is cleared, and the restore sweep has run
TurnedOff ==
    /\ intervals'.scans = 0
    /\ intervals'.imageScans = 0
    /\ texts' = RestoreOriginalContent(State).texts
    /\ images' = RestoreOriginalContent(State).images

\* a scan of the document has started: its first chunk is scheduled
Unscanned ==
    \/ \E e \in TextElems : texts[e].connected /\ ~texts[e].cls
    \/ \E e \in ImgElems : images[e].connected /\ ~images[e].cls
ScanStarted ==
    Unscanned => \E k \in 1..Len(timers') : timers'[k].k = "chunk" /\ timers'[k].rem = 0

\* C30: toggle handling.  When a toggle message is handled: the restore
\* sweep runs and the periodic scans are cleared exactly when it changes
\* enabled from true to false; a scan starts at once exactly when it changes
\* enabled from false to true; a message that carries the current value
\* leaves the document, the queue and the timers as they are; and in every
\* case the value is written to the store and returned in the
\* acknowledgement.
C30_ToggleHandling ==
    [][ToggleStep =>
            /\ (isEnabled /\ ~Carried) => TurnedOff
            /\ ~(isEnabled /\ ~Carried) =>
                    /\ intervals'.scans >= intervals.scans
                    /\ intervals'.imageScans >= intervals.imageScans
                    /\ texts' = texts /\ images' = images
            /\ (~isEnabled /\ Carried) => ScanStarted
            /\ ~(~isEnabled /\ Carried) => timers' = timers
            /\ (isEnabled <=> Carried) =>
                    /\ texts' = texts /\ images' = images
                    /\ processingQueue' = processingQueue
                    /\ timers' = timers
                    /\ intervals' = intervals
            /\ storageOps' = Append(storageOps, SetOp("enabled", 0, Carried, <<>>))
            /\ acks' = Append(acks, Carried)
            /\ isEnabled' = Carried
      ]_<<vars, textVars, storeVars, backendVars, lifeVars, pageVars>>

(***************************************************************************)
(* SpecShow: the "Show Image" button.  The page holds a heading and an    *)
(* image, which is as loaded or has been filtered by processImage: it is  *)
(* marked, registered, blurred and wrapped with its overlay.  The scans,  *)
(* the image handlers, the registry reset and the toggle messages go on   *)
(* after the click.                                                        *)
(***************************************************************************)
ShowBase ==
    [isEnabled |-> TRUE, backendRunning |-> TRUE, currentlyProcessing |-> FALSE,
     processingQueue |-> <<>>, textElementsProcessed |-> {},
     imageElementsProcessed |-> {},
     texts |-> [e \in TextElems |->
                   [TextElement(PageText(e)) EXCEPT !.connected = e \in Headings]],
     images |-> [e \in ImgElems |-> ImageElement("plain", LargeSize, LargeSize, TRUE)],
     timers |-> <<>>, batches |-> <<>>, imageFetches |-> {},
     pushes |-> [e \in Elements |-> 0]]

\* scanImagesForModeration has analysed the image e of s as unsafe
RECURSIVE FilteredImages(_, _)
FilteredImages(s, todo) ==
    IF todo = {} THEN s
    ELSE LET e == CHOOSE x \in todo : TRUE
         IN  FilteredImages(
                 ProcessImageVerdict(Register(ProcessImage(s, e), "image", e), e, "unsafe"),
                 todo \ {e})

InitShow ==
    /\ \E src \in {"plain", "safe", "sensitive"}, filtered \in BOOLEAN :
        LET s == FilteredImages(
                    [ShowBase EXCEPT !.images =
                        [e \in ImgElems |-> ImageElement(src, LargeSize, LargeSize, TRUE)]],
                    IF filtered THEN ImgElems ELSE {})
        IN  /\ images = s.images
            /\ imageElementsProcessed = s.imageElementsProcessed
    /\ isEnabled = TRUE
    /\ backendRunning = TRUE
    /\ currentlyProcessing = FALSE
    /\ processingQueue = <<>>
    /\ textElementsProcessed = {}
    /\ texts = ShowBase.texts
    /\ timers = <<>>
    /\ batches = <<>>
    /\ imageFetches = {}
    /\ events = 0
    /\ pushes = [e \in Elements |-> 0]
    /\ origin = [e \in Elements |-> IF e \in TextElems THEN texts[e] ELSE images[e]]
    /\ shown = {}
    /\ notice = NoNotice
    /\ TextUnused
    /\ BackendUnused
    /\ StoreUnused
    /\ LifeUnused

\* the user clicks "Show Image" on the overlay of an image
ShowClicked ==
    /\ Internal
    /\ \E e \in ImgElems :
        /\ images[e].overlay
        /\ AssignPage([State EXCEPT !.images[e] = ShowImage(@)])
        /\ shown' = shown \cup {e}
    /\ UNCHANGED <<notice, lifeVars, storeVars>>

NextShow ==
    \/ ShowClicked
    \/ ScanContent
    \/ ScanImages
    \/ InitialImagePass
    \/ NewImage
    \/ ToggleMessage
    \/ RegistryReset
    \/ Mutation
    \/ TimerFires
    \/ Tick
    \/ TextVerdictArrives
    \/ ImageVerdictArrives
    \/ BatchCompletes

SpecShow == InitShow /\ [][NextShow]_<<vars, textVars, storeVars, backendVars, lifeVars, pageVars>>

\* C31: a click on Show removes the blur and the overlay of that image and
\* changes nothing else: the other images, the texts and their indicators,
\* the registries, the queue and the enabled flag stay as they are; and an
\* image that was revealed is never blurred or overlaid again.
C31_ShowRevealsOneImage ==
    [][/\ shown' # shown =>
            \E e \in shown' \ shown :
                /\ ~images'[e].blur /\ ~images'[e].overlay
                /\ \A o \in ImgElems \ {e} : images'[o] = images[o]
                /\ texts' = texts
                /\ textElementsProcessed' = textElementsProcessed
                /\ imageElementsProcessed' = imageElementsProcessed
                /\ processingQueue' = processingQueue
                /\ isEnabled' = isEnabled
       /\ \A e \in shown : ~images'[e].blur /\ ~images'[e].overlay
      ]_<<vars, textVars, storeVars, backendVars, lifeVars, pageVars>>

\* a revealed image stays clear while a heading is filtered and after the
\* scans that followed the click
C31_Witness ==
    /\ \E e \in shown : images[e].connected /\ ~images[e].blur /\ pushes[e] > 0
    /\ \E t \in TextElems : texts[t].filt

(***************************************************************************)
(* SpecRecover: applyRecoveredContent, called by the message listener     *)
(* with the text the popup has recovered.  Each text element of the page  *)
(* is as loaded, or filtered by processTextElement, or filtered and since *)
(* removed from the document, or a text of asterisks of the page's own.   *)
(* A notification is a node of its own with a timer that removes it, 30 s *)
(* or 3 s later: the timer fires at some later time.                      *)
(* No element of the page carries the class socioio-encrypted: the        *)
(* content script never sets it.                                           *)
(***************************************************************************)
W_stars == <<"*", "*", "*", "*", "*">>
S_FilteredBySocio ==
    <<"[", "C", "o", "n", "t", "e", "n", "t", " ", "f", "i", "l", "t", "e", "r", "e", "d",
      " ", "b", "y", " ", "S", "o", "c", "i", "o", ".", "i", "o", "]">>

RecoveredTexts == {W_kill \o W_sp \o W_them, PageText("h1")}

\* textContent.trim() is not empty and holds asterisks only
OnlyAsterisks(text) ==
    LET t == Trim(text) IN t # <<>> /\ \A i \in 1..Len(t) : t[i] = "*"

\* allFilteredElements: the elements with the class, then those of
\* asterisks, then those holding the message, each in document order
AllFilteredElements(s) ==
    SelectSeq2(TextOrder, {e \in TextElems : s.texts[e].connected /\ s.texts[e].filt}, 1)
    \o SelectSeq2(TextOrder, {e \in TextElems : s.texts[e].connected
                                                 /\ OnlyAsterisks(s.texts[e].text)}, 1)
    \o SelectSeq2(TextOrder, {e \in TextElems : s.texts[e].connected
                                /\ Includes(Trim(s.texts[e].text), S_FilteredBySocio)}, 1)

\* applyRecoveredContent, what it does to the elements: the first filtered
\* element gets the text and loses the class, and the indicators whose box
\* is near that element's (those of the elements in near) are removed
ApplyRecoveredContent(s, recoveredText, near) ==
    LET all == AllFilteredElements(s)
    IN  IF all = <<>> THEN s
        ELSE [s EXCEPT !.texts = [e \in TextElems |->
                 LET el == IF e = all[1]
                           THEN [@[e] EXCEPT !.text = recoveredText, !.filt = FALSE]
                           ELSE @[e]
                 IN  IF e \in near THEN [el EXCEPT !.ind = 0] ELSE el]]

\* applyRecoveredContent, the notification it appends and sets a timer for:
\* the recovered text when nothing is filtered, a message of success
\* otherwise
Notification(s, recoveredText, id) ==
    IF AllFilteredElements(s) = <<>>
    THEN [id |-> id, kind |-> "recovered", text |-> recoveredText, attached |-> TRUE]
    ELSE [id |-> id, kind |-> "restored", text |-> <<>>, attached |-> TRUE]

\* a text element that processTextElement has filtered on a remove verdict
FilteredElement(t) ==
    [ProcessTextVerdict(ProcessTextStart(TextElement(t)), Trim(t), "remove", FALSE)
        EXCEPT !.cls = TRUE]

RecoverInputs(e) ==
    IF e \in LongPageOnly THEN {OnPage(e)}
    ELSE {TextElement(PageText(e)), TextElement(W_stars), FilteredElement(PageText(e)),
          [FilteredElement(PageText(e)) EXCEPT !.connected = FALSE]}

InitRecover ==
    /\ isEnabled = TRUE
    /\ backendRunning = TRUE
    /\ currentlyProcessing = FALSE
    /\ processingQueue = <<>>
    /\ texts \in [TextElems -> UNION {RecoverInputs(e) : e \in TextElems}]
    /\ \A e \in TextElems : texts[e] \in RecoverInputs(e)
    /\ textElementsProcessed = {e \in TextElems : texts[e].cls}
    /\ imageElementsProcessed = {}
    /\ images = [e \in ImgElems |->
                    [ImageElement("plain", LargeSize, LargeSize, TRUE) EXCEPT !.connected = FALSE]]
    /\ timers = <<>>
    /\ batches = <<>>
    /\ imageFetches = {}
    /\ events = 0
    /\ pushes = [e \in Elements |-> 0]
    /\ origin = [e \in Elements |-> IF e \in TextElems THEN texts[e] ELSE images[e]]
    /\ shown = {}
    /\ notice = NoNotice
    /\ TextUnused
    /\ BackendUnused
    /\ StoreUnused
    /\ LifeUnused

\* the message applyRecoveredContent arrives
RecoveredContentReceived ==
    /\ Trigger
    /\ \E recoveredText \in RecoveredTexts :
       \E near \in SUBSET {e \in TextElems : texts[e].connected /\ texts[e].ind > 0} :
        /\ AssignPage(ApplyRecoveredContent(State, recoveredText, near))
        /\ notice' = notice \cup {Notification(State, recoveredText, events + 1)}
    /\ UNCHANGED <<shown, lifeVars, storeVars>>

\* the timer of a notification fires: the node is removed if still there
NoticeTimerFires ==
    /\ Internal
    /\ \E n \in notice : notice' = notice \ {n}
    /\ UNCHANGED <<vars, textVars, storeVars, backendVars, lifeVars, shown>>

\* the user clicks the close button of the notification of a recovered text
NoticeClosed ==
    /\ Internal
    /\ \E n \in notice :
        /\ n.kind = "recovered"
        /\ n.attached
        /\ notice' = (notice \ {n}) \cup {[n EXCEPT !.attached = FALSE]}
    /\ UNCHANGED <<vars, textVars, storeVars, backendVars, lifeVars, shown>>

NextRecover ==
    \/ RecoveredContentReceived
    \/ NoticeTimerFires
    \/ NoticeClosed

SpecRecover == InitRecover /\ [][NextRecover]_<<vars, textVars, storeVars, backendVars, lifeVars, pageVars>>

\* the filtered elements of the page, and the elements whose text or
\* marker a step changes
OnPageFiltered == {e \in TextElems : texts[e].connected /\ texts[e].filt}
ContentChanged ==
    {e \in TextElems : texts'[e].text # texts[e].text \/ texts'[e].filt # texts[e].filt
                       \/ texts'[e].connected # texts[e].connected}

\* the notification of the step shows the recovered text
RecoveredTextShown ==
    \E n \in notice' \ notice, r \in RecoveredTexts :
        n.attached /\ n.kind = "recovered" /\ n.text = r

\* C32: applyRecoveredContent, a filtered element being one that carries
\* the marker of processTextElement.  With one on the page, one such
\* element gets the recovered text and loses the marker and no other
\* element's content changes; with none on the page, no element's content
\* changes and the recovered text is shown in a notification.
C32_MarkedElementsOnly ==
    [][events' = events + 1 =>
          /\ OnPageFiltered # {} =>
                \E e \in OnPageFiltered, r \in RecoveredTexts :
                    /\ texts'[e].text = r
                    /\ ~texts'[e].filt
                    /\ ContentChanged \subseteq {e}
          /\ OnPageFiltered = {} => ContentChanged = {} /\ RecoveredTextShown
      ]_<<vars, textVars, storeVars, backendVars, lifeVars, pageVars>>

(***************************************************************************)
(* Elements that leave the document: the pipeline of Spec on a page whose  *)
(* script removes text elements at any time.                               *)
(***************************************************************************)
\* the page removes a text element from the document
ElementRemoved ==
    /\ Internal
    /\ \E e \in TextElems :
        /\ texts[e].connected
        /\ Becomes([State EXCEPT !.texts[e].connected = FALSE])

NextDetach ==
    \/ ElementRemoved
    \/ ScanContent
    \/ ScanImages
    \/ InitialImagePass
    \/ NewImage
    \/ ToggleMessage
    \/ RegistryReset
    \/ BackendStatusMessage
    \/ ShowClick
    \/ Mutation
    \/ TimerFires
    \/ Tick
    \/ TextVerdictArrives
    \/ ImageVerdictArrives
    \/ BatchCompletes

SpecDetach == Init /\ [][NextDetach]_<<vars, textVars, storeVars, backendVars, lifeVars, pageVars>>

\* processNextBatch has taken a batch from the queue in this step
Dispatched == Len(batches') > Len(batches)
Queued(q, e) == \E k \in 1..Len(q) : q[k].type = "text" /\ q[k].el = e

\* a detached element whose items were dispatched while it was detached:
\* discovery has marked it, no item of it is left in the queue, and
\* processTextElement never got as far as saving its text
Discarded(e) ==
    /\ ~texts[e].connected /\ texts[e].cls /\ ~texts[e].hasOrig
    /\ ~Queued(processingQueue, e)

\* C33: a text item dispatched while its element is detached settles at
\* once as fulfilled (skipped), with no request pending for it and the
\* element as it was before the dispatch; and a detached element whose
\* items have been dispatched is not pushed to the queue again.
C33_DetachedDiscarded ==
    [][/\ Dispatched =>
            \A k \in 1..Len(batches'[Len(batches')]) :
                LET it == batches'[Len(batches')][k]
                IN  (it.type = "text" /\ ~texts[it.el].connected) =>
                        /\ it.st = "fulfilled"
                        /\ texts'[it.el] = texts[it.el]
       /\ \A e \in TextElems :
            Discarded(e) => ~Queued(processingQueue', e)
      ]_<<vars, textVars, storeVars, backendVars, lifeVars, pageVars>>

(***************************************************************************)
(* The registry and its periodic reset, under Spec.                        *)
(***************************************************************************)
\* the number of chunk timers that hold element e
ChunksOf(tm, e) ==
    Cardinality({k \in 1..Len(tm) : tm[k].k = "chunk" /\ e \in Range(tm[k].els)})

\* the number of times that a content scan run now would hand e to
\* processElementsWithDelay
ScanSelects(e) == ChunksOf(ScanContentForModeration(State).timers, e) - ChunksOf(timers, e)

\* a text element that was processed before the last reset: it carries the
\* class that discovery adds together with the registration, and the
\* registry no longer holds it
ResetSince(e) == texts[e].cls /\ e \notin textElementsProcessed

\* once the reset has taken an attached element out of the registry, a
\* scan of the enabled pipeline selects it exactly once
EligibleAfterReset(e) ==
    (ResetSince(e) /\ texts[e].connected /\ isEnabled /\ backendRunning) =>
        ScanSelects(e) = 1

\* C34: a text element that is in the registry, in a step that does not
\* reset the registry, is not pushed to the queue; and once the reset has
\* taken it out of the registry, a scan of the enabled pipeline selects it,
\* if it is still attached, exactly once.
C34_RegistryReset ==
    [][\A e \in TextElems :
        /\ (e \in textElementsProcessed /\ e \in textElementsProcessed') =>
                pushes'[e] <= pushes[e]
        /\ EligibleAfterReset(e)'
      ]_<<vars, textVars, storeVars, backendVars, lifeVars, pageVars>>

(***************************************************************************)
(* The backend's image verdict: ContentFilter.filterImage, called on one   *)
(* instance with image URLs of the scheme "h".                             *)
(***************************************************************************)
MaxCalls == 2

U_base == <<"h", ":", "/", "/", "a", "/">>
U_cat == U_base \o <<"c", "a", "t">>
U_adult == U_base \o <<"a", "d", "u", "l", "t">>
U_Adult == U_base \o <<"A", "d", "u", "l", "t">>
U_bare == <<"c", "a", "t">>
U_nohost == <<"h", ":", "c", "a", "t">>
ImageUrls == {U_cat, U_adult, U_Adult, U_bare, U_nohost}

InappropriateUrlPatterns ==
    {<<"n", "s", "f", "w">>, <<"a", "d", "u", "l", "t">>, <<"x", "x", "x">>,
     <<"p", "o", "r", "n">>, <<"e", "x", "p", "l", "i", "c", "i", "t">>}

\* new URL(imageUrl) and the test of its protocol and hostname: the
\* constructor throws on a string without a scheme, and a URL of a scheme
\* like "h" has a hostname only when "//" and a host follow the colon
ParseUrl(url) ==
    LET colons == {k \in 1..Len(url) : url[k] = ":"}
    IN  IF colons = {} THEN "throws"
        ELSE LET c == CHOOSE k \in colons : \A l \in colons : k <= l
             IN  IF /\ Len(url) >= c + 3
                    /\ url[c + 1] = "/" /\ url[c + 2] = "/" /\ url[c + 3] # "/"
                 THEN "ok" ELSE "no hostname"

\* pythonBridge.filterImage(imageUrl): the promise rejects, or resolves
\* with the verdict of the vision service
BridgeImageOutcomes == {"rejects", "safe", "unsafe"}

ImageResult(filtered, reason) == [filtered |-> filtered, reason |-> reason]

\* ContentFilter.filterImage(imageUrl); random tells whether Math.random()
\* returned less than 0.1
FilterImage(cf, imageUrl, bridge, random) ==
    LET counted == [cf EXCEPT !.stats.total_requests = @ + 1]
        filtering == [counted EXCEPT !.stats.images_filtered = @ + 1]
    IN  IF ParseUrl(imageUrl) = "no hostname"
        THEN [cf |-> counted, result |-> ImageResult(FALSE, "Invalid URL")]
        ELSE IF ParseUrl(imageUrl) = "throws"
        THEN [cf |-> counted, result |-> ImageResult(FALSE, "Error parsing URL")]
        ELSE IF cf.pythonAvailable /\ cf.googleCloudAvailable /\ bridge # "rejects"
        THEN [cf |-> IF bridge = "unsafe" THEN filtering ELSE counted,
              result |-> ImageResult(bridge = "unsafe", "vision")]
        ELSE IF \E pattern \in InappropriateUrlPatterns :
                    Includes(ToLowerCase(imageUrl), pattern)
        THEN [cf |-> filtering,
              result |-> ImageResult(TRUE, "Potentially inappropriate image")]
        ELSE IF random
        THEN [cf |-> filtering,
              result |-> ImageResult(TRUE, "Randomly filtered for demonstration")]
        ELSE [cf |-> counted,
              result |-> ImageResult(FALSE, "No inappropriate content detected")]

\* new ContentFilter()
InitFilter ==
    /\ contentFilter \in
          {[pythonAvailable |-> py, googleCloudAvailable |-> gc,
            stats |-> [images_filtered |-> 0, total_requests |-> 0],
            calls |-> <<>>] : py \in BOOLEAN, gc \in BOOLEAN}
    /\ PipelineUnused
    /\ StoreUnused
    /\ TextUnused
    /\ LifeUnused
    /\ PageUnused

\* a request for an image verdict calls filterImage
FilterImageCalled ==
    /\ Len(contentFilter.calls) < MaxCalls
    /\ \E imageUrl \in ImageUrls, random \in BOOLEAN :
       \E bridge \in IF contentFilter.pythonAvailable /\ contentFilter.googleCloudAvailable
                     THEN BridgeImageOutcomes ELSE {""} :
        LET r == FilterImage(contentFilter, imageUrl, bridge, random)
        IN  contentFilter' = [r.cf EXCEPT !.calls =
                Append(@, [url |-> imageUrl, bridge |-> bridge, result |-> r.result])]
    /\ UNCHANGED <<vars, textVars, storeVars, lifeVars, pageVars>>

NextFilter == FilterImageCalled

SpecFilter == InitFilter /\ [][NextFilter]_<<vars, textVars, storeVars, backendVars, lifeVars, pageVars>>

\* C35: the backend image verdict is deterministic.  Two calls of
\* filterImage on one instance (the same availability flags) with the same
\* image URL, the bridge answering the same, return the same filtered value
\* and the same reason.
C35_ImageVerdictDeterministic ==
    \A i, j \in 1..Len(contentFilter.calls) :
        (/\ contentFilter.calls[i].url = contentFilter.calls[j].url
         /\ contentFilter.calls[i].bridge = contentFilter.calls[j].bridge) =>
            contentFilter.calls[i].result = contentFilter.calls[j].result

(***************************************************************************)
(* The long page: four text elements in the document, so that one chunk of *)
(* processElementsWithDelay pushes its fourth element 150 ms after the     *)
(* chunk callback, later than the processNextBatch it sets for 100 ms.  A  *)
(* text is the page's text or a text too short to be analysed.  The       *)
(* pipeline is enabled and no message disables it.                         *)
(***************************************************************************)
InitLive ==
    /\ isEnabled = TRUE
    /\ backendRunning = TRUE
    /\ currentlyProcessing = FALSE
    /\ processingQueue = <<>>
    /\ textElementsProcessed = {}
    /\ imageElementsProcessed = {}
    /\ \E short \in SUBSET TextElems :
        texts = [e \in TextElems |->
                    IF e \in short THEN TextElement(W_all) ELSE TextElement(PageText(e))]
    /\ images = [e \in ImgElems |->
                    [ImageElement("plain", LargeSize, LargeSize, TRUE) EXCEPT !.connected = FALSE]]
    /\ timers = <<>>
    /\ batches = <<>>
    /\ imageFetches = {}
    /\ events = 0
    /\ pushes = [e \in Elements |-> 0]
    /\ origin = [e \in Elements |-> IF e \in TextElems THEN texts[e] ELSE images[e]]
    /\ TextUnused
    /\ BackendUnused
    /\ LifeUnused
    /\ PageUnused
    /\ StoreUnused

NextLive ==
    \/ ScanContent
    \/ Mutation
    \/ TimerFires
    \/ Tick
    \/ TextVerdictArrives
    \/ BatchCompletes

SpecLive == InitLive /\ [][NextLive]_<<vars, textVars, storeVars, backendVars, lifeVars, pageVars>>

\* nothing is under way that ends in a call of processNextBatch: no timer
\* is set and no batch is in flight
Quiescent == timers = <<>> /\ batches = <<>> /\ ~currentlyProcessing

\* C36: queue liveness, in its finite form.  While the pipeline is enabled,
\* the pipeline never comes to rest with an item in the queue: whenever the
\* queue holds an item, a dispatch cycle is in flight or a timer is set
\* that leads to one.
C36_QueueLiveness == (isEnabled /\ Quiescent) => processingQueue = <<>>

(***************************************************************************)
(* Where the analysis requests come from, under Spec.                      *)
(***************************************************************************)
\* C37: every analysis request is issued from inside a dispatch cycle.  A
\* step that sends a request (a text item of a batch starts its fetch, or
\* processImage starts the fetch for an image) is a step in which
\* processNextBatch takes a batch from the queue, and the requests
\* outstanding are never more than the batch size.
C37_RequestsInsideDispatch ==
    [][/\ ~(Requests(batches', imageFetches') \subseteq Requests(batches, imageFetches))
            => Dispatched
       /\ Cardinality(Requests(batches', imageFetches')) <= BATCH_SIZE
      ]_<<vars, textVars, storeVars, backendVars, lifeVars, pageVars>>

(***************************************************************************)
(* The periodic scan timers, under SpecStartup.                            *)
(***************************************************************************)
\* C38: timer uniqueness.  Whatever initializations and toggle messages
\* have been handled, at most one interval of scanContentForModeration and
\* at most one interval of scanImagesForModeration are active, and none is
\* active once the last toggle message has turned the protection off.
C38_TimerUniqueness ==
    /\ intervals.scans <= 1
    /\ intervals.imageScans <= 1
    /\ (toggles # <<>> /\ ~toggles[Len(toggles)] /\ ~isEnabled) =>
            intervals.scans = 0 /\ intervals.imageScans = 0

====
